---- MODULE Spec2Model ----
(***************************************************************************)
(* A model of the statistical core of the ledger repository (package pbc). *)
(*                                                                         *)
(* Each library function is modelled as a call frame that is stepped       *)
(* statement by statement:                                                 *)
(*   call  the function being executed                                     *)
(*   args  its arguments, as the caller passed them                        *)
(*   loc   its local variables; a name is in DOMAIN loc once assigned      *)
(*   pc    the next statement to execute ("done" after return or raise)    *)
(*   ret   how the call ended: nothing yet, a returned value, an exception *)
(*   env   what exists outside the call: the files on disk, global state   *)
(*                                                                         *)
(* Numbers.  Inputs are small integers.  A float produced by a division is *)
(* kept as an unreduced fraction [n, d]; d = 0 stands for the non-finite   *)
(* IEEE results of numpy's division (n # 0: +-inf, n = 0: nan), which      *)
(* numpy produces with a RuntimeWarning and without raising.               *)
(* Complex coefficients are Gaussian integers <<re, im>> lying on the real *)
(* or the imaginary axis, so that magnitudes are integers and the phases   *)
(* are whole quarter turns, whose cosines are 1, 0 and -1.                 *)
(***************************************************************************)
EXTENDS Integers, Sequences, FiniteSets, TLC

VARIABLES call, args, loc, pc, ret, env

vars == <<call, args, loc, pc, ret, env>>

(***************************************************************************)
(* Bounds of the model.                                                    *)
(***************************************************************************)
MaxDim == 2
MaxL == 1
MaxPix == 3

(***************************************************************************)
(* Frame helpers.                                                          *)
(***************************************************************************)
NoRet == [kind |-> "none"]
Return(line, val) == [kind |-> "return", line |-> line, val |-> val]
Raise(line, exc) == [kind |-> "raise", line |-> line, exc |-> exc]
NoLocals == <<>>
\* the world outside the call (files, global state); empty for pure functions
NoEnv == <<>>
Assign(l, name, val) == (name :> val) @@ l
Has(name) == name \in DOMAIN loc

Abs(x) == IF x < 0 THEN -x ELSE x
Max2(x, y) == IF x >= y THEN x ELSE y

RECURSIVE SumRange(_, _, _)
SumRange(s, lo, hi) ==
    IF lo > hi THEN 0
    ELSE IF lo = hi THEN s[lo]
    ELSE SumRange(s, lo, (lo + hi) \div 2) + SumRange(s, (lo + hi) \div 2 + 1, hi)
SumSeq(s) == SumRange(s, 1, Len(s))

Frac(n, d) == [n |-> n, d |-> d]

(***************************************************************************)
(* numpy array primitives used by pbc.dual.  A 1-D array is a sequence of  *)
(* numbers, a 2-D array a sequence of rows.  Each primitive that numpy     *)
(* rejects with ValueError has a predicate saying when it is accepted.     *)
(***************************************************************************)
\* a * b on 1-D arrays: shapes broadcast when equal or when one has length 1
MulBroadcastOk(a, b) == Len(a) = Len(b) \/ Len(a) = 1 \/ Len(b) = 1
At(a, i) == IF Len(a) = 1 THEN a[1] ELSE a[i]
MulBroadcast(a, b) == [i \in 1..Max2(Len(a), Len(b)) |-> At(a, i) * At(b, i)]

\* np.dot / the inner product of two 1-D arrays: equal lengths required
DotOk(a, b) == Len(a) = Len(b)
Dot(a, b) == SumSeq([i \in 1..Len(a) |-> a[i] * b[i]])

\* M @ x for a 2-D M and a 1-D x: columns of M must match the length of x
MatVecOk(M, x) == \A i \in 1..Len(M) : Len(M[i]) = Len(x)
MatVec(M, x) == [i \in 1..Len(M) |-> Dot(M[i], x)]

\* np.outer
Outer(a, b) == [i \in 1..Len(a) |-> [j \in 1..Len(b) |-> a[i] * b[j]]]

(***************************************************************************)
(* pbc.dual.woodbury_update_covariance, statement by statement.            *)
(* A covariance is [ndim |-> 1, a |-> d] (diagonal-only, d a 1-D array) or *)
(* [ndim |-> 2, a |-> M] (full matrix, M a sequence of rows).              *)
(***************************************************************************)
\* "if sigma_te.ndim == 1: v = sigma_te * c  else: v = sigma_te @ c"
Woodbury_vOk(sigma_te, c) ==
    IF sigma_te.ndim = 1 THEN MulBroadcastOk(sigma_te.a, c)
                         ELSE MatVecOk(sigma_te.a, c)
Woodbury_v(sigma_te, c) ==
    IF sigma_te.ndim = 1 THEN MulBroadcast(sigma_te.a, c)
                         ELSE MatVec(sigma_te.a, c)

\* mutant: sign slip in the denominator
Woodbury_k_minus(lambda_gamma, c, v) == 1 - lambda_gamma * Dot(c, v)
\* "c_dot_v = np.dot(c, v); k = 1.0 + lambda_gamma * c_dot_v"
Woodbury_k(lambda_gamma, c, v) == 1 + lambda_gamma * Dot(c, v)

\* "scale = lambda_gamma / k"
Woodbury_scale(lambda_gamma, k) == Frac(lambda_gamma, k)

\* "update = scale * np.outer(v, v)"
Woodbury_update(scale, v) ==
    LET o == Outer(v, v)
    IN  [i \in 1..Len(v) |-> [j \in 1..Len(v) |-> Frac(scale.n * o[i][j], scale.d)]]

\* "return sigma_te - update": numpy broadcasts sigma_te against the 2-D
\* update, aligning trailing axes; a 1-D sigma_te is laid along each row.
SubBroadcastOk(sigma_te, update) ==
    Len(sigma_te.a) = Len(update) \/ Len(sigma_te.a) = 1 \/ Len(update) = 1
SigmaEntry(sigma_te, i, j) ==
    IF sigma_te.ndim = 1 THEN At(sigma_te.a, j)
                         ELSE At(At(sigma_te.a, i), j)
UpdateEntry(update, i, j) == At(At(update, i), j)
Woodbury_result(sigma_te, update) ==
    LET n == Max2(Len(sigma_te.a), Len(update))
    IN  [ndim |-> 2,
         a |-> [i \in 1..n |-> [j \in 1..n |->
                  LET u == UpdateEntry(update, i, j)
                  IN  Frac(SigmaEntry(sigma_te, i, j) * u.d - u.n, u.d)]]]

\* lines 21-24
wb_project ==
    /\ call = "woodbury_update_covariance" /\ pc = "wb_project"
    /\ IF Woodbury_vOk(args.sigma_te, args.c)
       THEN /\ loc' = Assign(loc, "v", Woodbury_v(args.sigma_te, args.c))
            /\ pc' = "wb_denominator"
            /\ ret' = ret
       ELSE /\ ret' = Raise(IF args.sigma_te.ndim = 1 THEN 22 ELSE 24, "ValueError")
            /\ pc' = "done"
            /\ loc' = loc
    /\ UNCHANGED <<call, args, env>>

\* lines 28-29
wb_denominator ==
    /\ call = "woodbury_update_covariance" /\ pc = "wb_denominator"
    /\ IF DotOk(args.c, loc.v)
       THEN /\ loc' = Assign(Assign(loc, "c_dot_v", Dot(args.c, loc.v)),
                             "k", Woodbury_k(args.lambda_gamma, args.c, loc.v))
            /\ pc' = "wb_update"
            /\ ret' = ret
       ELSE /\ ret' = Raise(28, "ValueError")
            /\ pc' = "done"
            /\ loc' = loc
    /\ UNCHANGED <<call, args, env>>

\* lines 34-35
wb_update ==
    /\ call = "woodbury_update_covariance" /\ pc = "wb_update"
    /\ LET scale == Woodbury_scale(args.lambda_gamma, loc.k)
       IN  loc' = Assign(Assign(loc, "scale", scale),
                         "update", Woodbury_update(scale, loc.v))
    /\ pc' = "wb_return"
    /\ UNCHANGED <<call, args, ret, env>>

\* line 39
wb_return ==
    /\ call = "woodbury_update_covariance" /\ pc = "wb_return"
    /\ ret' = IF SubBroadcastOk(args.sigma_te, loc.update)
              THEN Return(39, Woodbury_result(args.sigma_te, loc.update))
              ELSE Raise(39, "ValueError")
    /\ pc' = "done"
    /\ UNCHANGED <<call, args, loc, env>>

(***************************************************************************)
(* pbc.dual.calculate_mean_shift, statement by statement.                  *)
(***************************************************************************)
\* "if sigma_te.ndim == 1: v = sigma_te * c  else: v = sigma_te @ c"
MeanShift_vOk(sigma_te, c) ==
    IF sigma_te.ndim = 1 THEN MulBroadcastOk(sigma_te.a, c)
                         ELSE MatVecOk(sigma_te.a, c)
MeanShift_v(sigma_te, c) ==
    IF sigma_te.ndim = 1 THEN MulBroadcast(sigma_te.a, c)
                         ELSE MatVec(sigma_te.a, c)

\* mutant: the coupling strength is left out of the denominator
MeanShift_k_nolambda(lambda_gamma, c, v) == 1 + Dot(c, v)
\* "k = 1.0 + lambda_gamma * np.dot(c, v)"
MeanShift_k(lambda_gamma, c, v) == 1 + lambda_gamma * Dot(c, v)

\* "overlap = np.dot(mu_te, c)"
MeanShift_overlap(mu_te, c) == Dot(mu_te, c)

\* mutant: the coupling strength is left out of the shift
MeanShift_delta_mu_nolambda(lambda_gamma, overlap, k, v) ==
    LET f == Frac(overlap, k)
    IN  [i \in 1..Len(v) |-> Frac(f.n * v[i], f.d)]
\* "delta_mu = (lambda_gamma * overlap / k) * v"
MeanShift_delta_mu(lambda_gamma, overlap, k, v) ==
    LET f == Frac(lambda_gamma * overlap, k)
    IN  [i \in 1..Len(v) |-> Frac(f.n * v[i], f.d)]

\* lines 58-61
ms_project ==
    /\ call = "calculate_mean_shift" /\ pc = "ms_project"
    /\ IF MeanShift_vOk(args.sigma_te, args.c)
       THEN /\ loc' = Assign(loc, "v", MeanShift_v(args.sigma_te, args.c))
            /\ pc' = "ms_denominator"
            /\ ret' = ret
       ELSE /\ ret' = Raise(IF args.sigma_te.ndim = 1 THEN 59 ELSE 61, "ValueError")
            /\ pc' = "done"
            /\ loc' = loc
    /\ UNCHANGED <<call, args, env>>

\* line 64
ms_denominator ==
    /\ call = "calculate_mean_shift" /\ pc = "ms_denominator"
    /\ IF DotOk(args.c, loc.v)
       THEN /\ loc' = Assign(loc, "k", MeanShift_k(args.lambda_gamma, args.c, loc.v))
            /\ pc' = "ms_overlap"
            /\ ret' = ret
       ELSE /\ ret' = Raise(64, "ValueError")
            /\ pc' = "done"
            /\ loc' = loc
    /\ UNCHANGED <<call, args, env>>

\* line 68
ms_overlap ==
    /\ call = "calculate_mean_shift" /\ pc = "ms_overlap"
    /\ IF DotOk(args.mu_te, args.c)
       THEN /\ loc' = Assign(loc, "overlap", MeanShift_overlap(args.mu_te, args.c))
            /\ pc' = "ms_shift"
            /\ ret' = ret
       ELSE /\ ret' = Raise(68, "ValueError")
            /\ pc' = "done"
            /\ loc' = loc
    /\ UNCHANGED <<call, args, env>>

\* lines 72-74
ms_shift ==
    /\ call = "calculate_mean_shift" /\ pc = "ms_shift"
    /\ LET delta_mu == MeanShift_delta_mu(args.lambda_gamma, loc.overlap, loc.k, loc.v)
       IN  /\ loc' = Assign(loc, "delta_mu", delta_mu)
           /\ ret' = Return(74, delta_mu)
    /\ pc' = "done"
    /\ UNCHANGED <<call, args, env>>

(***************************************************************************)
(* The posterior update engine: one call of either function on bounded     *)
(* inputs.  Covariances are symmetric; the dimensions of sigma_te, c and   *)
(* mu_te are chosen independently, so mismatched calls are included.       *)
(***************************************************************************)
Dims == 1..MaxDim
Vectors(S, n) == [1..n -> S]
SigmaVals == {0, 1}
CVals == {-1, 0, 2}
MuVals == {0, 3}
IsSymmetric(M) == \A i, j \in 1..Len(M) : M[i][j] = M[j][i]
DiagCovs(n) == {[ndim |-> 1, a |-> d] : d \in Vectors(SigmaVals, n)}
FullCovs(n) == {[ndim |-> 2, a |-> M] :
                  M \in {X \in Vectors(Vectors(SigmaVals, n), n) : IsSymmetric(X)}}
Covs(ndim, n) == IF ndim = 1 THEN DiagCovs(n) ELSE FullCovs(n)
CVecs == UNION {Vectors(CVals, n) : n \in Dims}
MuVecs == UNION {Vectors(MuVals, n) : n \in Dims}
Lambdas == {-1, 0, 2}

InitDual ==
    /\ call \in {"woodbury_update_covariance", "calculate_mean_shift"}
    /\ \E ndim \in {1, 2}, n \in Dims :
       \E sigma_te \in Covs(ndim, n), c \in CVecs, lambda_gamma \in Lambdas :
          IF call = "woodbury_update_covariance"
          THEN args = [sigma_te |-> sigma_te, c |-> c, lambda_gamma |-> lambda_gamma]
          ELSE \E mu_te \in MuVecs :
                  args = [mu_te |-> mu_te, sigma_te |-> sigma_te, c |-> c,
                          lambda_gamma |-> lambda_gamma]
    /\ loc = NoLocals
    /\ pc = IF call = "woodbury_update_covariance" THEN "wb_project" ELSE "ms_project"
    /\ ret = NoRet
    /\ env = NoEnv

NextDual ==
    \/ wb_project
    \/ wb_denominator
    \/ wb_update
    \/ wb_return
    \/ ms_project
    \/ ms_denominator
    \/ ms_overlap
    \/ ms_shift

SpecDual == InitDual /\ [][NextDual]_vars

(***************************************************************************)
(* Reference mathematics used to state the claims (not part of the code).  *)
(***************************************************************************)
\* equality of two floats kept as fractions; non-finite values (d = 0) are
\* equal when they are the same one of +inf, -inf, nan
Sign(x) == IF x > 0 THEN 1 ELSE IF x < 0 THEN -1 ELSE 0
FracEq(x, y) ==
    IF x.d = 0 \/ y.d = 0
    THEN x.d = 0 /\ y.d = 0 /\ Sign(x.n) = Sign(y.n)
    ELSE x.n * y.d = y.n * x.d
FracIsInt(x, m) == x.d # 0 /\ x.n = m * x.d

\* determinant by expansion along the first row, and the adjugate, so that
\* M^-1 = Adjugate(M) / Det(M) when Det(M) # 0
DropAt(s, j) == [i \in 1..(Len(s) - 1) |-> IF i < j THEN s[i] ELSE s[i + 1]]
Minor(M, r, q) == [i \in 1..(Len(M) - 1) |-> DropAt(DropAt(M, r)[i], q)]
PlusMinus(e) == IF e % 2 = 0 THEN 1 ELSE -1
RECURSIVE Det(_)
Det(M) ==
    IF Len(M) = 1 THEN M[1][1]
    ELSE SumSeq([j \in 1..Len(M) |-> PlusMinus(1 + j) * M[1][j] * Det(Minor(M, 1, j))])
Adjugate(M) ==
    IF Len(M) = 1 THEN <<<<1>>>>
    ELSE [i \in 1..Len(M) |-> [j \in 1..Len(M) |->
            PlusMinus(i + j) * Det(Minor(M, j, i))]]
MatMul(A, B) ==
    [i \in 1..Len(A) |-> [j \in 1..Len(B[1]) |->
        SumSeq([l \in 1..Len(B) |-> A[i][l] * B[l][j]])]]

DualDone(f) == call = f /\ pc = "done"
DualReturned(f) == DualDone(f) /\ ret.kind = "return"
\* the context vector, the covariance and (for the mean shift) the mean
\* all have the same dimension
DimsAgree ==
    /\ Len(args.c) = Len(args.sigma_te.a)
    /\ call = "calculate_mean_shift" => Len(args.mu_te) = Len(args.c)

(***************************************************************************)
(* C2: woodbury_update_covariance(Sigma, c, 0) returns Sigma itself, in    *)
(* the same representation (diagonal-only stays 1-D, full stays 2-D), the  *)
(* same shape and with the same entries, for every c of matching dimension.*)
(***************************************************************************)
SameCovariance(r, sigma_te) ==
    /\ r.ndim = sigma_te.ndim
    /\ Len(r.a) = Len(sigma_te.a)
    /\ IF sigma_te.ndim = 1
       THEN \A i \in 1..Len(r.a) : FracIsInt(r.a[i], sigma_te.a[i])
       ELSE \A i \in 1..Len(r.a) :
               /\ Len(r.a[i]) = Len(sigma_te.a[i])
               /\ \A j \in 1..Len(r.a[i]) : FracIsInt(r.a[i][j], sigma_te.a[i][j])
C2_LambdaZeroReturnsSigma ==
    (DualDone("woodbury_update_covariance") /\ DimsAgree /\ args.lambda_gamma = 0)
        => (ret.kind = "return" /\ SameCovariance(ret.val, args.sigma_te))

(***************************************************************************)
(* C3: calculate_mean_shift(mu, Sigma, c, 0) returns the zero vector of    *)
(* the dimension of mu, for a full or a diagonal-only Sigma and every c of *)
(* matching dimension.                                                     *)
(***************************************************************************)
C3_LambdaZeroShiftIsZero ==
    (DualDone("calculate_mean_shift") /\ DimsAgree /\ args.lambda_gamma = 0)
        => /\ ret.kind = "return"
           /\ Len(ret.val) = Len(args.mu_te)
           /\ \A i \in 1..Len(ret.val) : FracIsInt(ret.val[i], 0)
\* the case happens with a mean that overlaps the context and a nonzero
\* projection, in both representations
C3_Witness ==
    /\ DualReturned("calculate_mean_shift") /\ DimsAgree /\ args.lambda_gamma = 0
    /\ Len(args.mu_te) = MaxDim
    /\ args.sigma_te.ndim = 1
    /\ loc.overlap # 0
    /\ \E i \in 1..Len(loc.v) : loc.v[i] # 0

(***************************************************************************)
(* C4: for a full (symmetric) covariance matrix Sigma, a context vector c  *)
(* of matching dimension and k = 1 + lambda*(c . Sigma c) # 0, the result  *)
(* of woodbury_update_covariance is Sigma - (lambda/k) * (v (x) v) with    *)
(* v = Sigma c, and for an invertible Sigma that result times              *)
(* (Sigma^-1 + lambda * c c^T) is the identity matrix.  With               *)
(* Sigma^-1 = Adjugate/Det and the result's entries N[i][j]/k this reads   *)
(* N . (Adjugate + Det*lambda*c c^T) = k*Det*I.                            *)
(***************************************************************************)
C4_WoodburyIsExactInverse ==
    (/\ DualDone("woodbury_update_covariance") /\ DimsAgree
     /\ args.sigma_te.ndim = 2
     /\ 1 + args.lambda_gamma * Dot(args.c, MatVec(args.sigma_te.a, args.c)) # 0)
        => LET S == args.sigma_te.a
               c == args.c
               lam == args.lambda_gamma
               n == Len(S)
               v == MatVec(S, c)
               k == 1 + lam * Dot(c, v)
               N == [i \in 1..n |-> [j \in 1..n |-> ret.val.a[i][j].n]]
               P == [i \in 1..n |-> [j \in 1..n |->
                        Adjugate(S)[i][j] + Det(S) * lam * c[i] * c[j]]]
           IN  /\ ret.kind = "return"
               /\ ret.val.ndim = 2 /\ Len(ret.val.a) = n
               /\ \A i, j \in 1..n :
                     FracEq(ret.val.a[i][j], Frac(S[i][j] * k - lam * v[i] * v[j], k))
               /\ \A i, j \in 1..n : ret.val.a[i][j].d = k
               /\ Det(S) # 0 =>
                     MatMul(N, P) = [i \in 1..n |-> [j \in 1..n |->
                                        IF i = j THEN k * Det(S) ELSE 0]]
C4_Witness ==
    /\ DualReturned("woodbury_update_covariance") /\ DimsAgree
    /\ args.sigma_te.ndim = 2 /\ Len(args.sigma_te.a) = MaxDim
    /\ Det(args.sigma_te.a) # 0
    /\ \E i, j \in 1..MaxDim : i # j /\ args.sigma_te.a[i][j] # 0
    /\ args.lambda_gamma # 0
    /\ loc.k \notin {0, 1}
    /\ \A i \in 1..MaxDim : loc.v[i] # 0

(***************************************************************************)
(* C5: whenever calculate_mean_shift returns, its result is                *)
(* (lambda * (mu . c) / k) * v for the v = Sigma c and k = 1 + lambda*(c.v)*)
(* that woodbury_update_covariance computes for the same Sigma, c, lambda. *)
(***************************************************************************)
C5_MeanShiftFormula ==
    DualDone("calculate_mean_shift") /\ ret.kind = "return"
        => LET v == Woodbury_v(args.sigma_te, args.c)
               k == Woodbury_k(args.lambda_gamma, args.c, v)
               mu_dot_c == Dot(args.mu_te, args.c)
           IN  /\ Len(ret.val) = Len(v)
               /\ \A i \in 1..Len(v) :
                     FracEq(ret.val[i], Frac(args.lambda_gamma * mu_dot_c * v[i], k))
C5_Witness ==
    /\ DualReturned("calculate_mean_shift") /\ DimsAgree
    /\ Len(args.c) = MaxDim
    /\ args.lambda_gamma # 0
    /\ loc.overlap # 0
    /\ loc.k \notin {0, 1}
    /\ \A i \in 1..Len(loc.v) : loc.v[i] # 0

(***************************************************************************)
(* C6: when k = 1 + lambda*(c . Sigma c) is zero, both functions raise     *)
(* (DegenerateStatistic) instead of dividing by k and returning a value.   *)
(***************************************************************************)
C6_DegenerateKRaises ==
    (pc = "done" /\ call \in {"woodbury_update_covariance", "calculate_mean_shift"}
     /\ Has("k") /\ loc.k = 0)
        => (ret.kind = "raise" /\ ~Has("scale") /\ ~Has("delta_mu"))

(***************************************************************************)
(* C7: when the dimension of c differs from that of Sigma or of mu, both   *)
(* functions raise before any part of the update is computed and return    *)
(* no result.                                                              *)
(***************************************************************************)
C7_DimensionMismatchRaisesFirst ==
    (call \in {"woodbury_update_covariance", "calculate_mean_shift"} /\ ~DimsAgree)
        => /\ loc = NoLocals
           /\ pc = "done" => ret.kind = "raise"

(***************************************************************************)
(* pbc.stats.calc_phase_alignment, statement by statement.                 *)
(* A coefficient vector is a sequence of complex numbers <<re, im>> in     *)
(* healpy's ordering: m = 0 with l = 0..L, then m = 1 with l = 1..L, ...   *)
(* Phases are counted in quarter turns (units of pi/2).                    *)
(***************************************************************************)
\* np.angle = arctan2(im, re), a value in (-pi, pi]; np.angle(0) = 0
Angle(z) ==
    IF z[2] = 0 THEN (IF z[1] >= 0 THEN 0 ELSE 2)
    ELSE IF z[2] > 0 THEN 1 ELSE -1

\* mutant: one is added to every modulus
AbsC_offset(z) == Abs(z[1]) + Abs(z[2]) + 1
\* np.abs of a complex number on an axis
AbsC(z) == Abs(z[1]) + Abs(z[2])

\* np.cos of a whole number of quarter turns
CosQ(d) == IF d % 4 = 0 THEN 1 ELSE IF d % 4 = 2 THEN -1 ELSE 0

\* hp.Alm.getlmax(size): the L with (L+1)(L+2)/2 = size, or -1
GetLmax(size) ==
    IF \E L \in 0..size : (L + 1) * (L + 2) = 2 * size
    THEN CHOOSE L \in 0..size : (L + 1) * (L + 2) = 2 * size
    ELSE -1

\* hp.Alm.getlm(L)[0]: the degree l of every index
RECURSIVE EllFrom(_, _)
EllFrom(m, L) ==
    IF m > L THEN <<>>
    ELSE [j \in 1..(L - m + 1) |-> m + j - 1] \o EllFrom(m + 1, L)
GetEll(L) == EllFrom(0, L)

\* "mask = (ell >= lmin) & (ell <= lmax)"
DegreeMask(ell, lmin, lmax) == [i \in 1..Len(ell) |-> ell[i] >= lmin /\ ell[i] <= lmax]
MaskCount(mask) == Cardinality({i \in 1..Len(mask) : mask[i]})

\* "np.sum(x[mask])"
RECURSIVE MaskedSum(_, _)
MaskedSum(x, mask) ==
    IF x = <<>> THEN 0
    ELSE (IF Head(mask) THEN Head(x) ELSE 0) + MaskedSum(Tail(x), Tail(mask))

\* mutant: the degree mask is not applied to the numerator
Numerator_unmasked(weights, delta_phi, mask) ==
    SumSeq([i \in 1..Len(weights) |-> weights[i] * CosQ(delta_phi[i])])
\* "numerator = np.sum(weights[mask] * np.cos(delta_phi[mask]))"
Numerator(weights, delta_phi, mask) ==
    MaskedSum([i \in 1..Len(weights) |-> weights[i] * CosQ(delta_phi[i])], mask)
\* mutants: the denominator sums every weight / counts the selected modes
Denominator_unmasked(weights, mask) == SumSeq(weights)
Denominator_count(weights, mask) == MaskCount(mask)
\* "denominator = np.sum(weights[mask])"
Denominator(weights, mask) == MaskedSum(weights, mask)

\* mutant: only a longer first vector is rejected
SizeMismatch_oneway(alm_cmb, alm_ctx) == Len(alm_cmb) > Len(alm_ctx)
\* "if alm_cmb.size != alm_ctx.size"
SizeMismatch(alm_cmb, alm_ctx) == Len(alm_cmb) # Len(alm_ctx)

\* lines 24-25
pa_check ==
    /\ call = "calc_phase_alignment" /\ pc = "pa_check"
    /\ IF SizeMismatch(args.alm_cmb, args.alm_ctx)
       THEN ret' = Raise(25, "ValueError") /\ pc' = "done"
       ELSE ret' = ret /\ pc' = "pa_phases"
    /\ UNCHANGED <<call, args, loc, env>>

\* lines 29-37
pa_phases ==
    /\ call = "calc_phase_alignment" /\ pc = "pa_phases"
    /\ LET phase_cmb == [i \in 1..Len(args.alm_cmb) |-> Angle(args.alm_cmb[i])]
           phase_ctx == [i \in 1..Len(args.alm_ctx) |-> Angle(args.alm_ctx[i])]
           delta_phi == [i \in 1..Len(phase_cmb) |-> phase_cmb[i] - phase_ctx[i]]
           weights == [i \in 1..Len(args.alm_ctx) |-> AbsC(args.alm_ctx[i])]
       IN  loc' = Assign(Assign(Assign(Assign(loc, "phase_cmb", phase_cmb),
                                       "phase_ctx", phase_ctx),
                                "delta_phi", delta_phi), "weights", weights)
    /\ pc' = "pa_mask"
    /\ UNCHANGED <<call, args, ret, env>>

\* lines 40-48
pa_mask ==
    /\ call = "calc_phase_alignment" /\ pc = "pa_mask"
    /\ LET lmax_arr == GetLmax(Len(args.alm_cmb))
           ell == GetEll(lmax_arr)
           mask == DegreeMask(ell, args.lmin, args.lmax)
       IN  /\ loc' = Assign(Assign(Assign(loc, "lmax_arr", lmax_arr), "ell", ell),
                            "mask", mask)
           /\ IF MaskCount(mask) = 0
              THEN ret' = Return(48, Frac(0, 1)) /\ pc' = "done"
              ELSE ret' = ret /\ pc' = "pa_sums"
    /\ UNCHANGED <<call, args, env>>

\* lines 53-57
pa_sums ==
    /\ call = "calc_phase_alignment" /\ pc = "pa_sums"
    /\ LET numerator == Numerator(loc.weights, loc.delta_phi, loc.mask)
           denominator == Denominator(loc.weights, loc.mask)
       IN  /\ loc' = Assign(Assign(loc, "numerator", numerator),
                            "denominator", denominator)
           /\ IF denominator = 0
              THEN ret' = Return(57, Frac(0, 1)) /\ pc' = "done"
              ELSE ret' = ret /\ pc' = "pa_return"
    /\ UNCHANGED <<call, args, env>>

\* line 59
pa_return ==
    /\ call = "calc_phase_alignment" /\ pc = "pa_return"
    /\ ret' = Return(59, Frac(loc.numerator, loc.denominator))
    /\ pc' = "done"
    /\ UNCHANGED <<call, args, loc, env>>

(***************************************************************************)
(* The alignment diagnostic: one call on bounded inputs.  The vectors have *)
(* the length of a healpy alm array of some lmax in 0..MaxL.  The context  *)
(* is any vector over CtxCoeffs; the first argument is the context itself, *)
(* its negation (the two sanity tests of tests/science/test_null.py) or    *)
(* any vector over CmbCoeffs, of the same or of another length.            *)
(***************************************************************************)
AlmSize(L) == ((L + 1) * (L + 2)) \div 2
AlmSizes == {AlmSize(L) : L \in 0..MaxL}
CtxCoeffs == {<<0, 0>>, <<1, 0>>, <<0, 2>>}
CmbCoeffs == {<<1, 0>>, <<0, -1>>}
MinDegrees == 0..MaxL
MaxDegrees == 0..(MaxL + 1)
Neg(alm) == [i \in 1..Len(alm) |-> <<-alm[i][1], -alm[i][2]>>]

InitPhase ==
    /\ call = "calc_phase_alignment"
    /\ \E n \in AlmSizes, lmin \in MinDegrees, lmax \in MaxDegrees :
       \E alm_ctx \in Vectors(CtxCoeffs, n) :
       \E alm_cmb \in {alm_ctx, Neg(alm_ctx)}
                      \cup UNION {Vectors(CmbCoeffs, m) : m \in AlmSizes} :
          args = [alm_cmb |-> alm_cmb, alm_ctx |-> alm_ctx, lmin |-> lmin, lmax |-> lmax]
    /\ loc = NoLocals
    /\ pc = "pa_check"
    /\ ret = NoRet
    /\ env = NoEnv

NextPhase ==
    \/ pa_check
    \/ pa_phases
    \/ pa_mask
    \/ pa_sums
    \/ pa_return

SpecPhase == InitPhase /\ [][NextPhase]_vars

(***************************************************************************)
(* Statements about calc_phase_alignment.                                  *)
(***************************************************************************)
PhaseDone == call = "calc_phase_alignment" /\ pc = "done"
SameSize == Len(args.alm_cmb) = Len(args.alm_ctx)
\* the indices whose degree lies in [lmin, lmax]
Selected ==
    LET ell == GetEll(GetLmax(Len(args.alm_cmb)))
    IN  {i \in 1..Len(ell) : args.lmin <= ell[i] /\ ell[i] <= args.lmax}
SelectedWeightIsZero == \A i \in Selected : args.alm_ctx[i] = <<0, 0>>

(***************************************************************************)
(* C1 as stated: for every coefficient vector a and every degree range     *)
(* that selects at least one coefficient of a, calc_phase_alignment(a, a,  *)
(* lmin, lmax) returns 1.0.                                                *)
(***************************************************************************)
C1_SelfAlignmentIsOne ==
    (PhaseDone /\ args.alm_cmb = args.alm_ctx /\ Selected # {})
        => (ret.kind = "return" /\ FracIsInt(ret.val, 1))

(***************************************************************************)
(* C1 amended: for every coefficient vector a and every degree range that  *)
(* selects at least one coefficient of a, calc_phase_alignment(a, a, lmin, *)
(* lmax) returns 1.0 when some selected coefficient of a is nonzero, and   *)
(* 0.0 when all the selected coefficients are zero.                        *)
(***************************************************************************)
C1_SelfAlignmentIsOneUnlessZeroWeight ==
    (PhaseDone /\ args.alm_cmb = args.alm_ctx /\ Selected # {})
        => /\ ret.kind = "return"
           /\ IF SelectedWeightIsZero THEN FracIsInt(ret.val, 0)
                                      ELSE FracIsInt(ret.val, 1)
\* a self-alignment of 1.0 over a proper part of a vector that has weight
\* outside the selection and a zero inside it
C1_Witness ==
    /\ PhaseDone /\ args.alm_cmb = args.alm_ctx
    /\ ret.kind = "return" /\ ret.line = 59 /\ FracIsInt(ret.val, 1)
    /\ \E i \in Selected : args.alm_ctx[i] = <<0, 0>>
    /\ \E i \in Selected : args.alm_ctx[i][2] # 0
    /\ \E i \in 1..Len(args.alm_ctx) : i \notin Selected /\ args.alm_ctx[i] # <<0, 0>>

(***************************************************************************)
(* C8: calc_phase_alignment raises an error when its two coefficient       *)
(* vectors have different lengths, before any phase, weight or degree      *)
(* selection is computed.                                                  *)
(***************************************************************************)
C8_SizeMismatchRaisesFirst ==
    (call = "calc_phase_alignment" /\ ~SameSize)
        => /\ loc = NoLocals
           /\ pc \in {"pa_check", "done"}
           /\ pc = "done" => ret = Raise(25, "ValueError")
C8_Witness ==
    /\ PhaseDone /\ ret.kind = "raise"
    /\ Len(args.alm_cmb) < Len(args.alm_ctx)
    /\ Selected # {}

(***************************************************************************)
(* C9: for equal-length vectors, calc_phase_alignment returns exactly 0.0, *)
(* without raising and without dividing, when no coefficient has degree in *)
(* [min_degree, max_degree] or when the weights |coeffs_b| of the selected *)
(* coefficients sum to zero: the call ends at one of the two "return 0.0"  *)
(* statements and never reaches the division.                              *)
(***************************************************************************)
C9_EmptyOrZeroWeightReturnsZero ==
    (call = "calc_phase_alignment" /\ pc \in {"pa_return", "done"} /\ SameSize
     /\ (Selected = {} \/ SelectedWeightIsZero))
        => /\ pc = "done"
           /\ ret.kind = "return"
           /\ ret.val = Frac(0, 1)
           /\ ret.line = (IF Selected = {} THEN 48 ELSE 57)
\* a non-empty selection of zero weight inside a vector that has weight
\* elsewhere, with phases that differ
C9_Witness ==
    /\ PhaseDone /\ SameSize
    /\ Selected # {} /\ SelectedWeightIsZero
    /\ ret = Return(57, Frac(0, 1))
    /\ \E i \in 1..Len(args.alm_ctx) : args.alm_ctx[i] # <<0, 0>>
    /\ args.alm_cmb # args.alm_ctx

(***************************************************************************)
(* C10: for all equal-length coefficient vectors and every degree range,   *)
(* the value returned by calc_phase_alignment lies in [-1, 1].             *)
(***************************************************************************)
C10_StatisticIsBounded ==
    (PhaseDone /\ SameSize)
        => /\ ret.kind = "return"
           /\ ret.val.d > 0
           /\ -ret.val.d <= ret.val.n /\ ret.val.n <= ret.val.d
\* a value strictly inside the interval, from unequal weights
C10_Witness ==
    /\ PhaseDone /\ ret.kind = "return" /\ ret.line = 59
    /\ ret.val.n # 0 /\ Abs(ret.val.n) < ret.val.d
    /\ \E i, j \in Selected : loc.weights[i] > loc.weights[j] /\ loc.weights[j] > 0

(***************************************************************************)
(* pbc.context.build_mask, statement by statement.                         *)
(* A map is a sequence of integer pixel values.  Mask weights are counted  *)
(* in halves: One stands for 1.0, so that a smoothed mask can take a value *)
(* strictly between 0 and 1.                                               *)
(***************************************************************************)
One == 2
DefaultThresholdSigma == 10
DefaultApodArcmin == 30

RangeOf(x) == {x[i] : i \in 1..Len(x)}
\* the k-th smallest entry of x
KthSmallest(x, k) ==
    CHOOSE v \in RangeOf(x) :
        /\ Cardinality({i \in 1..Len(x) : x[i] < v}) < k
        /\ k <= Cardinality({i \in 1..Len(x) : x[i] <= v})
\* "mu = np.median(map_in)", as twice the median (the mean of the two
\* middle entries when the length is even)
Median2(x) ==
    LET n == Len(x)
    IN  IF n % 2 = 1 THEN 2 * KthSmallest(x, (n + 1) \div 2)
        ELSE KthSmallest(x, n \div 2) + KthSmallest(x, n \div 2 + 1)
\* "sig = np.std(map_in)": n^2 times the population variance sig^2
VarianceN2(x) ==
    Len(x) * SumSeq([i \in 1..Len(x) |-> x[i] * x[i]]) - SumSeq(x) * SumSeq(x)
\* "np.abs(map_in - mu) < (threshold_sigma * sig)" for one pixel: with a
\* negative right-hand side it is false, otherwise both sides are squared
WithinThreshold(xi, x, threshold_sigma) ==
    /\ threshold_sigma >= 0
    /\ (2 * xi - Median2(x)) * (2 * xi - Median2(x)) * Len(x) * Len(x)
          < 4 * threshold_sigma * threshold_sigma * VarianceN2(x)
BinaryMask(x, threshold_sigma) ==
    [i \in 1..Len(x) |-> WithinThreshold(x[i], x, threshold_sigma)]
\* "mask_float = binary_mask.astype(float)"
MaskFloat(binary_mask) == [i \in 1..Len(binary_mask) |-> IF binary_mask[i] THEN One ELSE 0]
\* "mask_apod = np.clip(mask_apod, 0.0, 1.0)"
Clip01(m) == [i \in 1..Len(m) |-> IF m[i] < 0 THEN 0 ELSE IF m[i] > One THEN One ELSE m[i]]
\* mutant: the smoothed mask is not multiplied by the hard mask
ZeroBadPixels_skip(mask_apod, mask_float) == mask_apod
\* "mask_apod *= mask_float"
ZeroBadPixels(mask_apod, mask_float) ==
    [i \in 1..Len(mask_apod) |-> (mask_apod[i] * mask_float[i]) \div One]
\* what hp.smoothing may return for a pixel, in halves: the harmonic
\* low-pass of a 0/1 field rings below 0 and above 1
SmoothVals == {-1, 1, 2, 3}
CtxSmoothVals == {1, 3}

\* lines 28-38
bm_threshold ==
    /\ call = "build_mask" /\ pc = "bm_threshold"
    /\ LET binary_mask == BinaryMask(args.map_in, args.threshold_sigma)
       IN  loc' = Assign(Assign(Assign(Assign(loc,
                    "mu", Frac(Median2(args.map_in), 2)),
                    "sig_squared", Frac(VarianceN2(args.map_in),
                                        Len(args.map_in) * Len(args.map_in))),
                    "binary_mask", binary_mask),
                    "mask_float", MaskFloat(binary_mask))
    /\ pc' = IF args.apod_arcmin > 0 THEN "bm_smooth" ELSE "bm_return"
    /\ UNCHANGED <<call, args, ret, env>>

\* lines 41-42: hp.smoothing returns some field of the same length
bm_smooth ==
    /\ call = "build_mask" /\ pc = "bm_smooth"
    /\ \E smoothed \in [1..Len(loc.mask_float) -> SmoothVals] :
          loc' = Assign(loc, "mask_apod", smoothed)
    /\ pc' = "bm_clip"
    /\ UNCHANGED <<call, args, ret, env>>

\* line 44
bm_clip ==
    /\ call = "build_mask" /\ pc = "bm_clip"
    /\ loc' = Assign(loc, "mask_apod", Clip01(loc.mask_apod))
    /\ pc' = "bm_zero"
    /\ UNCHANGED <<call, args, ret, env>>

\* mutant: the hard mask is multiplied into the input field itself
bm_zero_inplace ==
    /\ call = "build_mask" /\ pc = "bm_zero"
    /\ LET mask_apod == ZeroBadPixels(loc.mask_apod, loc.mask_float)
       IN  /\ loc' = Assign(loc, "mask_apod", mask_apod)
           /\ ret' = Return(47, mask_apod)
    /\ args' = [args EXCEPT !.map_in = ZeroBadPixels(args.map_in, loc.mask_float)]
    /\ pc' = "done"
    /\ UNCHANGED <<call, env>>
\* lines 46-47
bm_zero ==
    /\ call = "build_mask" /\ pc = "bm_zero"
    /\ LET mask_apod == ZeroBadPixels(loc.mask_apod, loc.mask_float)
       IN  /\ loc' = Assign(loc, "mask_apod", mask_apod)
           /\ ret' = Return(47, mask_apod)
    /\ pc' = "done"
    /\ UNCHANGED <<call, args, env>>

\* line 49
bm_return ==
    /\ call = "build_mask" /\ pc = "bm_return"
    /\ ret' = Return(49, loc.mask_float)
    /\ pc' = "done"
    /\ UNCHANGED <<call, args, loc, env>>

(***************************************************************************)
(* The mask builder: one call of build_mask on a bounded map.              *)
(***************************************************************************)
PixVals == {0, 1, 9}
Maps == UNION {[1..n -> PixVals] : n \in 1..MaxPix}
ThresholdSigmas == {-1, 0, 1, 2, DefaultThresholdSigma}
ApodScales == {0, DefaultApodArcmin}

InitMask ==
    /\ call = "build_mask"
    /\ \E map_in \in Maps, threshold_sigma \in ThresholdSigmas, apod_arcmin \in ApodScales :
          args = [map_in |-> map_in, threshold_sigma |-> threshold_sigma,
                  apod_arcmin |-> apod_arcmin]
    /\ loc = NoLocals
    /\ pc = "bm_threshold"
    /\ ret = NoRet
    /\ env = NoEnv

NextMask ==
    \/ bm_threshold
    \/ bm_smooth
    \/ bm_clip
    \/ bm_zero
    \/ bm_return

SpecMask == InitMask /\ [][NextMask]_vars

(***************************************************************************)
(* C11: for every input field, every threshold_sigma and every apodization *)
(* scale (zero or positive), every pixel of the mask returned by           *)
(* build_mask lies in [0, 1], and every pixel that fails the hard          *)
(* threshold test |x - median| < threshold_sigma * std is exactly 0.0.     *)
(***************************************************************************)
C11_MaskInUnitIntervalAndBadPixelsZero ==
    (call = "build_mask" /\ pc = "done")
        => /\ ret.kind = "return"
           /\ Len(ret.val) = Len(args.map_in)
           /\ \A i \in 1..Len(ret.val) :
                 /\ 0 <= ret.val[i] /\ ret.val[i] <= One
                 /\ ~WithinThreshold(args.map_in[i], args.map_in, args.threshold_sigma)
                       => ret.val[i] = 0
\* an apodized mask with a rejected outlier, a fully valid pixel and a
\* softened pixel
C11_Witness ==
    /\ call = "build_mask" /\ pc = "done" /\ ret.kind = "return" /\ ret.line = 47
    /\ args.apod_arcmin > 0
    /\ \E i, j, l \in 1..Len(ret.val) :
          /\ ~loc.binary_mask[i] /\ ret.val[i] = 0
          /\ loc.binary_mask[j] /\ ret.val[j] = One
          /\ loc.binary_mask[l] /\ 0 < ret.val[l] /\ ret.val[l] < One

(***************************************************************************)
(* pbc.utils.io.read_map, pbc.context.build_context_template and the       *)
(* script scripts/01_context_builder.py.                                   *)
(*                                                                         *)
(* env.files maps a path to what is on disk: [kind, data] with kind        *)
(* "missing", "map" (a 1-D map), "tqu" (a 2-D array whose first row is the *)
(* map) or "cube" (an array read_map rejects).  Maps on disk are at the    *)
(* working resolution, so read_map does not resample.  env.saved is the    *)
(* sequence of files written by the script.                                *)
(*                                                                         *)
(* The harmonic transform provider is modelled by fixed linear maps:       *)
(* rotate_map_pixel reverses the pixel order, and map2alm projects a map   *)
(* of n pixels on the polynomials (2i - n - 1)^l, l = 0..lmax.             *)
(***************************************************************************)
\* lines 16-35 of io.py: the exception read_map raises, or "" when it returns
ReadMapRaises_noexists(file) ==
    IF file.kind = "cube" THEN "ValueError" ELSE ""
ReadMapRaises(file) ==
    IF file.kind = "missing" THEN "FileNotFoundError"
    ELSE IF file.kind = "cube" THEN "ValueError"
    ELSE ""
ReadMapLine(file) == IF file.kind = "missing" THEN 18 ELSE 28
\* the map read_map returns: the array itself, or the first row of a 2-D one
ReadMapData(file) == file.data

\* hp.Rotator(coord=['G', 'E']).rotate_map_pixel
RotateMapPixel(m) == [i \in 1..Len(m) |-> m[Len(m) + 1 - i]]

\* hp.map2alm(m, lmax=lmax)
RECURSIVE Power(_, _)
Power(b, e) == IF e = 0 THEN 1 ELSE b * Power(b, e - 1)
Basis(l, i, n) == Power(2 * i - n - 1, l)
Map2Alm(m, lmax) ==
    [k \in 1..(lmax + 1) |-> SumSeq([i \in 1..Len(m) |-> Basis(k - 1, i, Len(m)) * m[i]])]

\* the arguments of build_context_template: the caller's, or those the
\* script passes at lines 45-50 (no mask_path, no systematics_paths)
BctArgs ==
    IF call = "main"
    THEN [exposure_path |-> "exposure", zodi_path |-> "zodi", mask_path |-> "None",
          systematics_paths |-> <<>>, nside |-> args.nside, lmax |-> args.lmax]
    ELSE args
InBct == call \in {"build_context_template", "main"}

\* an exception leaves build_context_template and, in the script, main
\* (which has no handler around the call)
BctRaise(line, exc) ==
    /\ ret' = Raise(line, exc)
    /\ pc' = "done"
    /\ loc' = loc

\* line 85
bct_read_exposure ==
    /\ InBct /\ pc = "bct_read_exposure"
    /\ LET file == env.files[BctArgs.exposure_path]
       IN  IF ReadMapRaises(file) # ""
           THEN BctRaise(ReadMapLine(file), ReadMapRaises(file))
           ELSE /\ loc' = Assign(loc, "exp_map", ReadMapData(file))
                /\ pc' = "bct_read_zodi"
                /\ ret' = ret
    /\ UNCHANGED <<call, args, env>>

\* line 86
bct_read_zodi ==
    /\ InBct /\ pc = "bct_read_zodi"
    /\ LET file == env.files[BctArgs.zodi_path]
       IN  IF ReadMapRaises(file) # ""
           THEN BctRaise(ReadMapLine(file), ReadMapRaises(file))
           ELSE /\ loc' = Assign(loc, "zodi_map", ReadMapData(file))
                /\ pc' = IF BctArgs.mask_path # "None" THEN "bct_read_mask"
                                                       ELSE "bct_build_mask"
                /\ ret' = ret
    /\ UNCHANGED <<call, args, env>>

\* lines 88-89
bct_read_mask ==
    /\ InBct /\ pc = "bct_read_mask"
    /\ LET file == env.files[BctArgs.mask_path]
       IN  IF ReadMapRaises(file) # ""
           THEN BctRaise(ReadMapLine(file), ReadMapRaises(file))
           ELSE /\ loc' = Assign(loc, "mask", ReadMapData(file))
                /\ pc' = "bct_rotate"
                /\ ret' = ret
    /\ UNCHANGED <<call, args, env>>

\* lines 90-92: mask = build_mask(exp_map) with the default threshold and
\* apodization scale, so the smoothing branch of build_mask is taken
bct_build_mask ==
    /\ InBct /\ pc = "bct_build_mask"
    /\ LET mask_float == MaskFloat(BinaryMask(loc.exp_map, DefaultThresholdSigma))
       IN  \E smoothed \in [1..Len(mask_float) -> CtxSmoothVals] :
              loc' = Assign(loc, "mask", ZeroBadPixels(Clip01(smoothed), mask_float))
    /\ pc' = "bct_rotate"
    /\ UNCHANGED <<call, args, ret, env>>

\* lines 97-99
bct_rotate ==
    /\ InBct /\ pc = "bct_rotate"
    /\ loc' = Assign(Assign(loc, "exp_ecl", RotateMapPixel(loc.exp_map)),
                     "zodi_ecl", RotateMapPixel(loc.zodi_map))
    /\ pc' = "bct_alm"
    /\ UNCHANGED <<call, args, ret, env>>

\* "alm_zodi = hp.map2alm(zodi_ecl * mask, lmax=lmax)"
AlmZodi_unmasked(zodi_ecl, mask, lmax) == Map2Alm(zodi_ecl, lmax)
AlmZodi(zodi_ecl, mask, lmax) == Map2Alm(MulBroadcast(zodi_ecl, mask), lmax)

\* lines 103-112
bct_alm ==
    /\ InBct /\ pc = "bct_alm"
    /\ IF MulBroadcastOk(loc.exp_ecl, loc.mask) /\ MulBroadcastOk(loc.zodi_ecl, loc.mask)
       THEN LET alm_exp == Map2Alm(MulBroadcast(loc.exp_ecl, loc.mask), BctArgs.lmax)
                alm_zodi == AlmZodi(loc.zodi_ecl, loc.mask, BctArgs.lmax)
                X == [num |-> [k \in 1..Len(alm_exp) |-> <<alm_exp[k], alm_zodi[k]>>],
                      den |-> 1]
            IN  /\ loc' = Assign(Assign(Assign(Assign(Assign(loc, "alm_exp", alm_exp),
                              "alm_zodi", alm_zodi), "X", X),
                              "sys_alms", <<>>), "sys_i", 1)
                /\ pc' = IF BctArgs.systematics_paths # <<>> THEN "bct_read_systematics"
                                                            ELSE "bct_svd"
                /\ ret' = ret
       ELSE BctRaise(103, "ValueError")
    /\ UNCHANGED <<call, args, env>>

\* integer helpers for exact linear algebra
RECURSIVE Gcd(_, _)
Gcd(a, b) == IF b = 0 THEN Abs(a) ELSE Gcd(b, a % Abs(b))
RECURSIVE GcdSeq(_)
GcdSeq(v) == IF v = <<>> THEN 0 ELSE Gcd(Head(v), GcdSeq(Tail(v)))
IsZeroVec(v) == \A i \in 1..Len(v) : v[i] = 0
\* the same direction with coprime entries
Primitive(v) == IF IsZeroVec(v) THEN v ELSE [i \in 1..Len(v) |-> v[i] \div GcdSeq(v)]
Scale(c, v) == [i \in 1..Len(v) |-> c * v[i]]
VecSub(u, v) == [i \in 1..Len(u) |-> u[i] - v[i]]
VecAdd(u, v) == [i \in 1..Len(u) |-> u[i] + v[i]]
Column(num, j) == [k \in 1..Len(num) |-> num[k][j]]

\* x minus its orthogonal projection on the mutually orthogonal nonzero
\* vectors Q, as the fraction num / den
RECURSIVE Residual(_, _)
Residual(x, Q) ==
    IF Q = <<>> THEN [num |-> x, den |-> 1]
    ELSE LET q == Head(Q)
             rest == Residual(x, Tail(Q))
         IN  [num |-> VecSub(Scale(Dot(q, q), rest.num),
                             Scale(rest.den * Dot(x, q), q)),
              den |-> Dot(q, q) * rest.den]

\* an orthogonal basis of the span of the columns S (those that add
\* nothing to the span are dropped)
RECURSIVE OrthogonalBasis(_)
OrthogonalBasis(S) ==
    IF S = <<>> THEN <<>>
    ELSE LET Q == OrthogonalBasis(SubSeq(S, 1, Len(S) - 1))
             r == Primitive(Residual(S[Len(S)], Q).num)
         IN  IF IsZeroVec(r) THEN Q ELSE Append(Q, r)

\* lines 128-130: each column of X minus S @ lstsq(S, column), which is the
\* column minus its orthogonal projection on the span of S
ProjectOut(X, sys_alms) ==
    LET Q == OrthogonalBasis(sys_alms)
        c1 == Residual(Column(X.num, 1), Q)
        c2 == Residual(Column(X.num, 2), Q)
    IN  [num |-> [k \in 1..Len(X.num) |-> <<c1.num[k], c2.num[k]>>],
         den |-> c1.den * X.den]

\* lines 118-122: one iteration of the loop over systematics_paths
bct_read_systematics ==
    /\ InBct /\ pc = "bct_read_systematics"
    /\ LET file == env.files[BctArgs.systematics_paths[loc.sys_i]]
       IN  IF ReadMapRaises(file) # ""
           THEN BctRaise(ReadMapLine(file), ReadMapRaises(file))
           ELSE LET m_sys_ecl == RotateMapPixel(ReadMapData(file))
                IN  IF MulBroadcastOk(m_sys_ecl, loc.mask)
                    THEN /\ loc' = [loc EXCEPT
                                !.sys_alms = Append(@, Map2Alm(MulBroadcast(m_sys_ecl, loc.mask),
                                                               BctArgs.lmax)),
                                !.sys_i = @ + 1]
                         /\ pc' = IF loc.sys_i < Len(BctArgs.systematics_paths)
                                  THEN "bct_read_systematics" ELSE "bct_project"
                         /\ ret' = ret
                    ELSE BctRaise(122, "ValueError")
    /\ UNCHANGED <<call, args, env>>

\* lines 124-130
bct_project ==
    /\ InBct /\ pc = "bct_project"
    /\ loc' = [loc EXCEPT !.X = ProjectOut(loc.X, loc.sys_alms)]
    /\ pc' = "bct_svd"
    /\ UNCHANGED <<call, args, ret, env>>

(***************************************************************************)
(* np.linalg.svd of the two-column matrix X = num / den.  With the Gram    *)
(* matrix of num written [[p, q], [q, r]], the squared singular values of  *)
(* num are (p + r +- d) / 2 with d = sqrt((p - r)^2 + 4 q^2), and the      *)
(* leading left singular vector is num @ w for an eigenvector w of the     *)
(* larger one.  The result is exact in the integers when d is an integer;  *)
(* otherwise the direction is irrational and the model keeps only that     *)
(* fact.  U[:, 0] is held as a direction with coprime entries (its         *)
(* normalisation to unit length is a positive factor); its sign, and the   *)
(* whole vector when the leading singular value is repeated, is left to    *)
(* the linear-algebra library.                                             *)
(***************************************************************************)
RECURSIVE ISqrtIn(_, _, _)
ISqrtIn(n, lo, hi) ==
    IF lo >= hi THEN lo
    ELSE LET mid == (lo + hi + 1) \div 2
         IN  IF mid * mid <= n THEN ISqrtIn(n, mid, hi) ELSE ISqrtIn(n, lo, mid - 1)
\* floor of the square root (46340 is the largest root of a 32-bit integer)
ISqrt(n) == ISqrtIn(n, 0, IF n < 46340 THEN n ELSE 46340)

UnitAxis(K, k) == [i \in 1..K |-> IF i = k THEN 1 ELSE 0]
\* the matrix divided by the greatest common divisor of its entries
MatGcd(num) == Gcd(GcdSeq(Column(num, 1)), GcdSeq(Column(num, 2)))
PrimitiveMat(num) ==
    IF MatGcd(num) = 0 THEN num
    ELSE [k \in 1..Len(num) |-> <<num[k][1] \div MatGcd(num), num[k][2] \div MatGcd(num)>>]

GramP(num) == Dot(Column(num, 1), Column(num, 1))
GramQ(num) == Dot(Column(num, 1), Column(num, 2))
GramR(num) == Dot(Column(num, 2), Column(num, 2))
\* (p - r)^2 + 4 q^2 is DiscGcd^2 times Discriminant: the common factor of
\* p - r and 2 q is taken out before squaring, so that the squares stay small
DiscGcd(num) == Gcd(GramP(num) - GramR(num), 2 * GramQ(num))
Discriminant(num) ==
    IF DiscGcd(num) = 0 THEN 0
    ELSE LET x == (GramP(num) - GramR(num)) \div DiscGcd(num)
             y == (2 * GramQ(num)) \div DiscGcd(num)
         IN  x * x + y * y
SvdExact(num) == ISqrt(Discriminant(num)) * ISqrt(Discriminant(num)) = Discriminant(num)
\* d, the difference of the two eigenvalues of the Gram matrix
DiscRoot(num) == DiscGcd(num) * ISqrt(Discriminant(num))

\* the singular values squared, as fractions, largest first
SingularValuesSquared(X) ==
    LET m == PrimitiveMat(X.num)
        g == MatGcd(X.num)
        d == DiscRoot(m)
    IN  <<Frac(g * g * (GramP(m) + GramR(m) + d), 2 * X.den * X.den),
          Frac(g * g * (GramP(m) + GramR(m) - d), 2 * X.den * X.den)>>

\* the directions U[:, 0] may take
LeadingDirections(X) ==
    LET m == PrimitiveMat(X.num)
        K == Len(m)
        a == Column(m, 1)
        b == Column(m, 2)
        p == GramP(m)
        q == GramQ(m)
        r == GramR(m)
        d == DiscRoot(m)
        w == Primitive(IF q # 0 \/ r - p + d # 0 THEN <<2 * q, r - p + d>>
                                                   ELSE <<p - r + d, 2 * q>>)
        u == Primitive(VecAdd(Scale(w[1], a), Scale(w[2], b)))
    IN  IF p = 0 /\ r = 0
        THEN {UnitAxis(K, k) : k \in 1..K} \cup {Scale(-1, UnitAxis(K, k)) : k \in 1..K}
        ELSE IF d = 0
        THEN LET span == {Primitive(a), Primitive(b), Primitive(VecAdd(a, b)),
                          Primitive(VecSub(a, b))}
             IN  span \cup {Scale(-1, v) : v \in span}
        ELSE {u, Scale(-1, u)}

\* line 134
bct_svd ==
    /\ InBct /\ pc = "bct_svd"
    /\ IF SvdExact(PrimitiveMat(loc.X.num))
       THEN \E u \in LeadingDirections(loc.X) :
               loc' = Assign(Assign(loc, "U0", [exact |-> TRUE, dir |-> u]),
                             "s", SingularValuesSquared(loc.X))
       ELSE loc' = Assign(Assign(loc, "U0", [exact |-> FALSE, dir |-> <<>>]), "s", <<>>)
    /\ pc' = "bct_return"
    /\ UNCHANGED <<call, args, ret, env>>

\* lines 138-140; in the script the value is bound to c_alm at line 45
bct_return ==
    /\ InBct /\ pc = "bct_return"
    /\ loc' = Assign(loc, "c_alm", loc.U0)
    /\ IF call = "main"
       THEN /\ pc' = "main_save"
            /\ ret' = ret
       ELSE /\ pc' = "done"
            /\ ret' = Return(140, loc.U0)
    /\ UNCHANGED <<call, args, env>>

\* 01_context_builder.py line 38
main_mkdir ==
    /\ call = "main" /\ pc = "main_mkdir"
    /\ env' = [env EXCEPT !.outdir = TRUE]
    /\ pc' = "bct_read_exposure"
    /\ UNCHANGED <<call, args, loc, ret>>

\* 01_context_builder.py lines 54-55 and io.py lines 41-43
main_save ==
    /\ call = "main" /\ pc = "main_save"
    /\ env' = [env EXCEPT !.saved = Append(@, [path |-> "context_vector_c.npy",
                                               data |-> loc.c_alm])]
    /\ pc' = "main_plot"
    /\ UNCHANGED <<call, args, loc, ret>>

\* 01_context_builder.py lines 60-61 and 12-23: the figure is written, or
\* the plotting error is caught and reported
main_plot ==
    /\ call = "main" /\ pc = "main_plot"
    /\ \/ env' = [env EXCEPT !.saved = Append(@, [path |-> "context_map_view.png",
                                                  data |-> loc.c_alm])]
       \/ env' = env
    /\ pc' = "done"
    /\ ret' = Return(61, "None")
    /\ UNCHANGED <<call, args, loc>>

\* the number of pixels of a map at the working resolution
Npix == MaxPix
Missing == [kind |-> "missing", data |-> <<>>]
OnDisk(kind, data) == [kind |-> kind, data |-> data]
CtxPixVals == {0, 1, 3}
Ramp == [i \in 1..Npix |-> i - 1]
Constant(c) == [i \in 1..Npix |-> c]
ExposureFiles ==
    {Missing, OnDisk("cube", <<>>)}
        \cup {OnDisk(kind, data) : kind \in {"map", "tqu"}, data \in [1..Npix -> CtxPixVals]}
\* a zodiacal-light file: absent, the same field as the exposure, or another
ZodiFiles(exposure) ==
    {Missing, OnDisk("map", Ramp), OnDisk("map", Constant(0))}
        \cup (IF exposure.kind \in {"map", "tqu"} THEN {OnDisk("map", exposure.data)} ELSE {})
MaskFiles ==
    {Missing, OnDisk("map", Constant(0)), OnDisk("map", Constant(One)),
     OnDisk("map", Constant(1)), OnDisk("map", [i \in 1..Npix |-> IF i = 1 THEN One ELSE 0])}
MaskPaths == {"None", "mask"}
SystematicsPaths == {<<>>, <<"sys1">>, <<"sys1", "sys2">>}
Sys1Files == {Missing, OnDisk("map", Constant(1))}
Sys2Files == {Missing, OnDisk("map", Ramp)}
CtxLmaxs == {0, 1}
\* with a mask file or systematics templates the exposure is a 0/1 field
ExposureFilesFor(mask_path, systematics_paths) ==
    IF mask_path = "None" /\ systematics_paths = <<>> THEN ExposureFiles
    ELSE {Missing} \cup {OnDisk("map", data) : data \in [1..Npix -> {0, 1}]}

\* the script is run with its two options; the library function is called
\* with or without a mask file and systematics templates
InitContext ==
    /\ call \in {"main", "build_context_template"}
    /\ \E lmax \in CtxLmaxs, mask_path \in MaskPaths, systematics_paths \in SystematicsPaths :
          /\ args = IF call = "main"
                    THEN [nside |-> 1, lmax |-> lmax]
                    ELSE [exposure_path |-> "exposure", zodi_path |-> "zodi",
                          mask_path |-> mask_path, systematics_paths |-> systematics_paths,
                          nside |-> 1, lmax |-> lmax]
          /\ call = "main" => mask_path = "None" /\ systematics_paths = <<>>
          /\ \E e \in ExposureFilesFor(mask_path, systematics_paths),
                m \in IF mask_path = "None" THEN {Missing} ELSE MaskFiles,
                s1 \in IF Len(systematics_paths) < 1 THEN {Missing} ELSE Sys1Files,
                s2 \in IF Len(systematics_paths) < 2 THEN {Missing} ELSE Sys2Files :
                \E z \in ZodiFiles(e) :
                   env = [files |-> [exposure |-> e, zodi |-> z, mask |-> m,
                                     sys1 |-> s1, sys2 |-> s2],
                          outdir |-> FALSE, saved |-> <<>>]
    /\ loc = NoLocals
    /\ pc = IF call = "main" THEN "main_mkdir" ELSE "bct_read_exposure"
    /\ ret = NoRet

NextContext ==
    \/ main_mkdir
    \/ bct_read_exposure
    \/ bct_read_zodi
    \/ bct_read_mask
    \/ bct_build_mask
    \/ bct_rotate
    \/ bct_alm
    \/ bct_read_systematics
    \/ bct_project
    \/ bct_svd
    \/ bct_return
    \/ main_save
    \/ main_plot

SpecContext == InitContext /\ [][NextContext]_vars

ContextDone == InBct /\ pc = "done"
\* the input files a call needs: the two fields, the mask file when one is
\* named, and every systematics template
NeededPaths ==
    {BctArgs.exposure_path, BctArgs.zodi_path}
        \cup (IF BctArgs.mask_path # "None" THEN {BctArgs.mask_path} ELSE {})
        \cup {BctArgs.systematics_paths[i] : i \in 1..Len(BctArgs.systematics_paths)}
SomeInputMissing == \E path \in NeededPaths : env.files[path].kind = "missing"
ContextVectorSaved == \E i \in 1..Len(env.saved) : env.saved[i].path = "context_vector_c.npy"

\* C12: when an input file that build_context_template needs is missing,
\* the call never reaches its return statement and ends by raising, and
\* the context-builder script never writes context_vector_c.npy.
C12_MissingInputRaisesAndNothingIsSaved ==
    (InBct /\ SomeInputMissing) =>
        /\ pc \notin {"bct_return", "main_save", "main_plot"}
        /\ ~Has("c_alm")
        /\ ~ContextVectorSaved
        /\ pc = "done" => ret.kind = "raise"

\* the script, run with the exposure map on disk and the zodiacal map
\* absent, has stopped on FileNotFoundError with nothing written
C12_Witness ==
    /\ call = "main" /\ pc = "done"
    /\ env.files["exposure"].kind = "map"
    /\ env.files["zodi"].kind = "missing"
    /\ env.outdir
    /\ ret = Raise(18, "FileNotFoundError")
    /\ env.saved = <<>>
\* the mask in use excludes every pixel
MaskExcludesEveryPixel == Has("mask") /\ Len(loc.mask) > 0 /\ IsZeroVec(loc.mask)

\* C13: when the mask excludes every pixel, build_context_template ends by
\* raising instead of returning a context vector.
C13_EmptyMaskFailsFatally ==
    (ContextDone /\ MaskExcludesEveryPixel) => ret.kind = "raise"

\* C14: with the same field as exposure and as zodi and no systematics
\* templates, the second singular value of the design matrix is zero and
\* the returned vector is a scalar multiple of the masked, transformed
\* coefficient vector of that field.
IdenticalFieldsNoSystematics ==
    /\ InBct
    /\ BctArgs.systematics_paths = <<>>
    /\ env.files[BctArgs.exposure_path].kind \in {"map", "tqu"}
    /\ env.files[BctArgs.zodi_path].kind \in {"map", "tqu"}
    /\ env.files[BctArgs.exposure_path].data = env.files[BctArgs.zodi_path].data
IsScalarMultipleOf(u, a) ==
    /\ Len(u) = Len(a)
    /\ \A i, j \in 1..Len(a) : u[i] * a[j] = u[j] * a[i]
    /\ IsZeroVec(a) => IsZeroVec(u)
ContextReturned == Has("c_alm") /\ (call = "main" \/ ret.kind = "return")
C14_IdenticalFieldsGiveTheirOwnDirection ==
    (IdenticalFieldsNoSystematics /\ ContextReturned) =>
        /\ loc.U0.exact
        /\ loc.s[2].n = 0 /\ loc.s[2].d # 0
        /\ IsScalarMultipleOf(loc.c_alm.dir, loc.alm_exp)

\* C14 as the code has it: the second singular value is always zero; the
\* returned vector is a nonzero multiple of the coefficient vector when
\* that vector is nonzero, and otherwise the design matrix is zero, both
\* singular values are zero and the returned direction is not determined
\* by the field.
C14_IdenticalFieldsGiveTheirOwnDirectionUnlessZero ==
    (IdenticalFieldsNoSystematics /\ ContextReturned) =>
        /\ loc.U0.exact
        /\ loc.s[2].n = 0 /\ loc.s[2].d # 0
        /\ loc.alm_zodi = loc.alm_exp
        /\ ~IsZeroVec(loc.c_alm.dir)
        /\ IF IsZeroVec(loc.alm_exp)
           THEN loc.s[1].n = 0
           ELSE loc.s[1].n > 0 /\ IsScalarMultipleOf(loc.c_alm.dir, loc.alm_exp)

\* two identical fields with a nonzero dipole coefficient were returned
\* with the opposite sign of the coefficient vector
C14_Witness ==
    /\ IdenticalFieldsNoSystematics /\ ContextReturned /\ pc = "done"
    /\ Len(loc.alm_exp) = 2 /\ loc.alm_exp[2] # 0
    /\ \E i \in 1..2 : loc.c_alm.dir[i] * loc.alm_exp[i] < 0
(***************************************************************************)
(* The audit scripts.  env.rng is numpy's global generator: its state and  *)
(* whether np.random.seed was called in this process.  A process that      *)
(* never seeds it starts from operating-system entropy, so its first state *)
(* is any state.  env.run counts the runs of the script on the same        *)
(* inputs and env.first keeps what the first run reported.                 *)
(*                                                                         *)
(* Statistics computed by external libraries on the data (pearsonr of a    *)
(* rotated map, the variance curve of a shuffled catalogue) are inputs: a  *)
(* table from the random draw to the value of the statistic.  Values are   *)
(* integers in a fixed unit.  A z-score (s_obs - mean) / std is held as    *)
(* [num, den2] with z = num / sqrt(den2); den2 = 0 is a division by zero,  *)
(* which numpy answers with inf or nan.                                    *)
(***************************************************************************)
RngStates == 0..4
\* the generator steps around a cycle of four states, or stays in the fifth
RngNext(state) == IF state < 4 THEN (state + 1) % 4 ELSE state
\* n applications of RngNext
RngAdvance(state, n) == IF state < 4 THEN (state + n) % 4 ELSE state
\* np.random.uniform(10, 350): one of two rotation angles
RngUniform(state) == IF state \in {1, 3} THEN 2 ELSE 1
\* np.random.permutation(values): one of two orders
RngPermutation(state) == IF state \in {0, 1} THEN 2 ELSE 1
\* np.random.seed(seed)
SeedState(seed) == seed % 5
Unseeded(state) == [state |-> state, seeded |-> FALSE]

\* the values f(draw) of n successive draws
Draws(table, state, n, kind) ==
    [i \in 1..n |->
        table[IF kind = "uniform" THEN RngUniform(RngAdvance(state, i - 1))
              ELSE RngPermutation(RngAdvance(state, i - 1))]]

\* "(r_obs - np.mean(nulls)) / np.std(nulls)"
ZScore_nomean(s_obs, nulls) ==
    [num |-> Len(nulls) * s_obs, den2 |-> VarianceN2(nulls)]
ZScore(s_obs, nulls) ==
    [num |-> Len(nulls) * s_obs - SumSeq(nulls), den2 |-> VarianceN2(nulls)]
IsNan(z) == z.num = 0 /\ z.den2 = 0
\* "abs(z) > 3.0" and "abs(z) < 3.0" in floating point: false for nan
AbsGreater3(z) == ~IsNan(z) /\ z.num * z.num > 9 * z.den2
AbsLess3(z) == z.den2 # 0 /\ z.num * z.num < 9 * z.den2

IsMonteCarlo == call \in {"robust_audit", "run_smica_audit", "p6_corrected_audit", "run_injection"}

\* 02_p1_monte_carlo_audit.py
N_ROTATIONS == 100
\* lines 50-69
ra_rotations ==
    /\ call = "robust_audit" /\ pc = "ra_rotations"
    /\ loc' = Assign(loc, "null_corrs", Draws(args.r_of, env.rng.state, N_ROTATIONS, "uniform"))
    /\ env' = [env EXCEPT !.rng.state = RngAdvance(@, N_ROTATIONS)]
    /\ pc' = "ra_analysis"
    /\ UNCHANGED <<call, args, ret>>
\* lines 72-74
ra_analysis ==
    /\ call = "robust_audit" /\ pc = "ra_analysis"
    /\ loc' = Assign(Assign(Assign(loc,
                "null_mean", Frac(SumSeq(loc.null_corrs), Len(loc.null_corrs))),
                "null_std_squared", Frac(VarianceN2(loc.null_corrs),
                                         Len(loc.null_corrs) * Len(loc.null_corrs))),
                "z_score", ZScore(args.r_obs, loc.null_corrs))
    /\ pc' = "ra_verdict"
    /\ UNCHANGED <<call, args, ret, env>>
\* lines 90-93
ra_verdict ==
    /\ call = "robust_audit" /\ pc = "ra_verdict"
    /\ ret' = IF AbsGreater3(loc.z_score)
              THEN Return(91, [verdict |-> "REAL", z_score |-> loc.z_score,
                               ensemble |-> loc.null_corrs])
              ELSE Return(93, [verdict |-> "FAKE", z_score |-> loc.z_score,
                               ensemble |-> loc.null_corrs])
    /\ pc' = "done"
    /\ UNCHANGED <<call, args, loc, env>>

\* 02_verify_smica.py
SmicaRotations == 20
\* lines 74-82
sm_rotations ==
    /\ call = "run_smica_audit" /\ pc = "sm_rotations"
    /\ loc' = Assign(loc, "nulls", Draws(args.r_of, env.rng.state, SmicaRotations, "uniform"))
    /\ env' = [env EXCEPT !.rng.state = RngAdvance(@, SmicaRotations)]
    /\ pc' = "sm_analysis"
    /\ UNCHANGED <<call, args, ret>>
\* line 84
sm_analysis ==
    /\ call = "run_smica_audit" /\ pc = "sm_analysis"
    /\ loc' = Assign(loc, "z_score", ZScore(args.r_obs, loc.nulls))
    /\ pc' = "sm_verdict"
    /\ UNCHANGED <<call, args, ret, env>>
\* lines 87-90
sm_verdict ==
    /\ call = "run_smica_audit" /\ pc = "sm_verdict"
    /\ ret' = IF AbsLess3(loc.z_score)
              THEN Return(88, [verdict |-> "ARTIFACT", z_score |-> loc.z_score,
                               ensemble |-> loc.nulls])
              ELSE Return(90, [verdict |-> "PERSISTENT", z_score |-> loc.z_score,
                               ensemble |-> loc.nulls])
    /\ pc' = "done"
    /\ UNCHANGED <<call, args, loc, env>>

\* p6_corrected_audit.py
N_SHUFFLES == 50
CurveColumn(curves, k) == [i \in 1..Len(curves) |-> curves[i][k]]
\* lines 67-72 with generate_shuffled_control (lines 43-50)
pc_shuffles ==
    /\ call = "p6_corrected_audit" /\ pc = "pc_shuffles"
    /\ loc' = Assign(loc, "noise_curves",
                     Draws(args.curve_of, env.rng.state, N_SHUFFLES, "permutation"))
    /\ env' = [env EXCEPT !.rng.state = RngAdvance(@, N_SHUFFLES)]
    /\ pc' = "pc_significance"
    /\ UNCHANGED <<call, args, ret>>
\* lines 75-80: one z-score per scan angle
pc_significance ==
    /\ call = "p6_corrected_audit" /\ pc = "pc_significance"
    /\ LET significance == [k \in 1..Len(args.signal_curve) |->
                               ZScore(args.signal_curve[k], CurveColumn(loc.noise_curves, k))]
       IN  /\ loc' = Assign(loc, "significance", significance)
           /\ ret' = Return(80, [verdict |-> "none", z_score |-> significance,
                                 ensemble |-> loc.noise_curves])
    /\ pc' = "done"
    /\ UNCHANGED <<call, args, env>>

\* run_injection.py line 28
ri_seed ==
    /\ call = "run_injection" /\ pc = "ri_seed"
    /\ env' = [env EXCEPT !.rng = [state |-> SeedState(args.seed), seeded |-> TRUE]]
    /\ pc' = "ri_context"
    /\ UNCHANGED <<call, args, loc, ret>>
\* lines 34-36: hp.synalm draws the context from the global generator
ri_context ==
    /\ call = "run_injection" /\ pc = "ri_context"
    /\ loc' = Assign(loc, "alm_ctx", RngUniform(env.rng.state))
    /\ env' = [env EXCEPT !.rng.state = RngNext(@)]
    /\ pc' = "ri_simulate"
    /\ UNCHANGED <<call, args, ret>>
\* lines 39-55: s_gamma of each simulated sky against the context
ri_simulate ==
    /\ call = "run_injection" /\ pc = "ri_simulate"
    /\ loc' = Assign(loc, "results",
                     Draws(args.s_gamma_of[loc.alm_ctx], env.rng.state, args.nsims, "uniform"))
    /\ env' = [env EXCEPT !.rng.state = RngAdvance(@, args.nsims)]
    /\ pc' = "ri_save"
    /\ UNCHANGED <<call, args, ret>>
\* lines 58-74
ri_save ==
    /\ call = "run_injection" /\ pc = "ri_save"
    /\ ret' = Return(74, [verdict |-> "none",
                          z_score |-> [mean_s_gamma |-> Frac(SumSeq(loc.results), args.nsims),
                                       std_s_gamma_squared |->
                                           Frac(VarianceN2(loc.results), args.nsims * args.nsims)],
                          ensemble |-> loc.results])
    /\ pc' = "done"
    /\ UNCHANGED <<call, args, loc, env>>

\* the script is started again on the same inputs: a new process, whose
\* global generator is again unseeded
FirstPc ==
    IF call = "robust_audit" THEN "ra_rotations"
    ELSE IF call = "run_smica_audit" THEN "sm_rotations"
    ELSE IF call = "p6_corrected_audit" THEN "pc_shuffles"
    ELSE "ri_seed"
second_run ==
    /\ IsMonteCarlo /\ pc = "done" /\ env.run = 1
    /\ \E state \in RngStates :
          env' = [rng |-> Unseeded(state), run |-> 2, first |-> ret]
    /\ loc' = NoLocals
    /\ ret' = NoRet
    /\ pc' = FirstPc
    /\ UNCHANGED <<call, args>>

\* exact arithmetic on fractions n / d with d > 0 (d = 0: inf or nan)
FReduce(f) ==
    IF f.d = 0 THEN Frac(Sign(f.n), 0)
    ELSE LET g == Gcd(f.n, f.d) IN Frac(f.n \div g, f.d \div g)
FAdd(f, g) ==
    IF f.d = 0 \/ g.d = 0 THEN Frac(Sign(f.n * g.d + g.n * f.d), 0)
    ELSE LET c == Gcd(f.d, g.d)
         IN  FReduce(Frac(f.n * (g.d \div c) + g.n * (f.d \div c), (f.d \div c) * g.d))
FSub(f, g) == FAdd(f, Frac(-g.n, g.d))
FMul(f, g) ==
    IF f.d = 0 \/ g.d = 0 THEN Frac(Sign(f.n) * Sign(g.n), 0)
    ELSE LET a == FReduce(Frac(f.n, g.d))
             b == FReduce(Frac(g.n, f.d))
         IN  Frac(a.n * b.n, a.d * b.d)
\* f / g, as numpy divides floats: a zero divisor gives inf or nan
FDiv(f, g) ==
    IF g.n = 0 THEN Frac(Sign(f.n), 0)
    ELSE FReduce(Frac(f.n * g.d * Sign(g.n), f.d * Abs(g.n)))
RECURSIVE FSum(_)
FSum(fs) == IF fs = <<>> THEN Frac(0, 1) ELSE FAdd(Head(fs), FSum(Tail(fs)))
\* a / b > c / d for non-negative a, c and positive b, d, without products
RECURSIVE RatioGreater(_, _, _, _)
RatioGreater(a, b, c, d) ==
    IF a \div b # c \div d THEN a \div b > c \div d
    ELSE IF a % b = 0 THEN FALSE
    ELSE IF c % d = 0 THEN TRUE
    ELSE RatioGreater(d, c % d, b, a % b)
\* "f > k" for k >= 0 in floating point: true for +inf, false for nan
FGreater(f, k) ==
    IF f.d = 0 THEN f.n > 0 ELSE f.n > 0 /\ RatioGreater(f.n, f.d, k, 1)

\* 03_desi_p5_audit.py
DefaultJackknife == 20
\* "np.average(d['Z'], weights=d[w])" over the rows idx of data
WeightSum(data, idx, w) == SumSeq([i \in 1..Len(idx) |-> data[idx[i]][w]])
WeightedZSum(data, idx, w) == SumSeq([i \in 1..Len(idx) |-> data[idx[i]].Z * data[idx[i]][w]])
\* lines 23-26; np.average raises ZeroDivisionError when the weights sum to zero
GetDzRaises(data, idx) ==
    WeightSum(data, idx, "WEIGHT_SYS") = 0 \/ WeightSum(data, idx, "WEIGHT_COMP") = 0
get_dz(data, idx) ==
    FSub(FReduce(Frac(WeightedZSum(data, idx, "WEIGHT_SYS"), WeightSum(data, idx, "WEIGHT_SYS"))),
         FReduce(Frac(WeightedZSum(data, idx, "WEIGHT_COMP"), WeightSum(data, idx, "WEIGHT_COMP"))))
AllRows(data) == [i \in 1..Len(data) |-> i]
\* "np.argsort(data['RA'])": the rows in increasing RA (the RA are distinct)
ArgsortRA(data) ==
    [k \in 1..Len(data) |->
        CHOOSE i \in 1..Len(data) :
            Cardinality({j \in 1..Len(data) : data[j].RA < data[i].RA}) = k - 1]
\* "np.array_split(idx, n)": the first len % n parts have one more element
SplitSize(len, n, i) == len \div n + (IF i <= len % n THEN 1 ELSE 0)
SplitStart(len, n, i) == (i - 1) * (len \div n) + (IF i - 1 <= len % n THEN i - 1 ELSE len % n)
ArraySplit_strided(idx, n) ==
    [i \in 1..n |-> [m \in 1..(IF i <= Len(idx) THEN (Len(idx) - i) \div n + 1 ELSE 0) |->
                        idx[i + (m - 1) * n]]]
ArraySplit(idx, n) ==
    [i \in 1..n |-> SubSeq(idx, SplitStart(Len(idx), n, i) + 1,
                           SplitStart(Len(idx), n, i) + SplitSize(Len(idx), n, i))]
\* "mask[splits[i]] = False; data[mask]": the rows outside one split
RECURSIVE Without(_, _)
Without(rows, split) ==
    IF rows = <<>> THEN <<>>
    ELSE IF \E k \in 1..Len(split) : split[k] = Head(rows) THEN Without(Tail(rows), split)
    ELSE <<Head(rows)>> \o Without(Tail(rows), split)

\* line 28
jk_global ==
    /\ call = "run_robust_p5_audit" /\ pc = "jk_global"
    /\ IF GetDzRaises(args.data, AllRows(args.data))
       THEN /\ ret' = Raise(24, "ZeroDivisionError")
            /\ pc' = "done"
            /\ loc' = loc
       ELSE /\ loc' = Assign(loc, "global_dz", get_dz(args.data, AllRows(args.data)))
            /\ pc' = "jk_split"
            /\ ret' = ret
    /\ UNCHANGED <<call, args, env>>
\* lines 33-34
jk_split ==
    /\ call = "run_robust_p5_audit" /\ pc = "jk_split"
    /\ IF args.n_jackknife <= 0
       THEN /\ ret' = Raise(34, "ValueError")
            /\ pc' = "done"
            /\ loc' = loc
       ELSE /\ loc' = Assign(loc, "splits", ArraySplit(ArgsortRA(args.data), args.n_jackknife))
            /\ pc' = "jk_loop"
            /\ ret' = ret
    /\ UNCHANGED <<call, args, env>>
\* lines 36-44
jk_loop ==
    /\ call = "run_robust_p5_audit" /\ pc = "jk_loop"
    /\ LET kept == [i \in 1..args.n_jackknife |-> Without(AllRows(args.data), loc.splits[i])]
       IN  IF \E i \in 1..args.n_jackknife : GetDzRaises(args.data, kept[i])
           THEN /\ ret' = Raise(43, "ZeroDivisionError")
                /\ pc' = "done"
                /\ loc' = loc
           ELSE /\ loc' = Assign(loc, "jk_shifts",
                                 [i \in 1..args.n_jackknife |-> get_dz(args.data, kept[i])])
                /\ pc' = "jk_stats"
                /\ ret' = ret
    /\ UNCHANGED <<call, args, env>>

\* line 51, as the square of error_bar
JackknifeVariance_unscaled(jk_shifts, mean_jk, n_jackknife) ==
    FSum([i \in 1..Len(jk_shifts) |->
             FMul(FSub(jk_shifts[i], mean_jk), FSub(jk_shifts[i], mean_jk))])
JackknifeVariance(jk_shifts, mean_jk, n_jackknife) ==
    FMul(Frac(n_jackknife - 1, n_jackknife),
         FSum([i \in 1..Len(jk_shifts) |->
                  FMul(FSub(jk_shifts[i], mean_jk), FSub(jk_shifts[i], mean_jk))]))
\* lines 47-55: error_bar and significance are held as their squares
jk_stats ==
    /\ call = "run_robust_p5_audit" /\ pc = "jk_stats"
    /\ LET mean_jk == FMul(FSum(loc.jk_shifts), Frac(1, Len(loc.jk_shifts)))
           variance == JackknifeVariance(loc.jk_shifts, mean_jk, args.n_jackknife)
       IN  loc' = Assign(Assign(Assign(loc, "mean_jk", mean_jk), "variance", variance),
                         "significance_squared",
                         FDiv(FMul(loc.global_dz, loc.global_dz), variance))
    /\ pc' = "jk_results"
    /\ UNCHANGED <<call, args, ret, env>>
\* lines 58-69
jk_results ==
    /\ call = "run_robust_p5_audit" /\ pc = "jk_results"
    /\ ret' = Return(69, [verdict |-> IF FGreater(loc.significance_squared, 9)
                                      THEN "DETECTION" ELSE "NULL",
                          global_dz |-> loc.global_dz,
                          error_bar_squared |-> loc.variance,
                          significance_squared |-> loc.significance_squared])
    /\ pc' = "done"
    /\ UNCHANGED <<call, args, loc, env>>

(***************************************************************************)
(* The Variance Ratio audits.  The per-patch counts are the input.  V is a *)
(* fraction [n, d]; the significance (V - 1) / sqrt(2 / D) is held as      *)
(* [num, den2] with num = V - 1 and den2 = 2 / D, both fractions.          *)
(***************************************************************************)
\* "np.var(counts) / np.mean(counts)"
VRatio(counts) == FReduce(Frac(VarianceN2(counts), Len(counts) * SumSeq(counts)))
\* "np.var(counts, ddof=1) / np.mean(counts)"
VRatioDdof1(counts) == FReduce(Frac(VarianceN2(counts), (Len(counts) - 1) * SumSeq(counts)))
Significance(v_ratio, D) == [num |-> FSub(v_ratio, Frac(1, 1)), den2 |-> FReduce(Frac(2, D))]
\* "significance > 3" in floating point
SigGreater3(sig) ==
    /\ sig.num.d # 0 /\ sig.den2.d # 0 /\ sig.den2.n > 0
    /\ sig.num.n > 0
    /\ RatioGreater(sig.num.n, sig.num.d,
                    9 * sig.den2.n * sig.num.d, sig.num.n * sig.den2.d)
\* x[keep]: the entries of x at the positions where keep holds, in order
SelectSeq2(x, keep) ==
    LET idx == {i \in 1..Len(x) : keep[i]}
    IN  [k \in 1..Cardinality(idx) |->
            x[CHOOSE i \in idx : Cardinality({j \in idx : j < i}) = k - 1]]

\* 06_jwst_p6_audit.py
\* the patch counts: those of lines 46-53 when the call has counted its
\* catalogue, and otherwise the counts the call starts from
Counts == IF Has("counts") THEN loc.counts ELSE args.counts
JwstSide == 4
\* lines 53-59
jw_ratio ==
    /\ call = "run_robust_p6_audit" /\ pc = "jw_ratio"
    /\ loc' = Assign(Assign(loc, "v_ratio", VRatio(Counts)),
                     "significance", Significance(VRatio(Counts), JwstSide * JwstSide))
    /\ pc' = "jw_results"
    /\ UNCHANGED <<call, args, ret, env>>
\* lines 64-74
jw_results ==
    /\ call = "run_robust_p6_audit" /\ pc = "jw_results"
    /\ ret' = Return(74, [verdict |-> IF SigGreater3(loc.significance)
                                      THEN "COUPLED" ELSE "BALANCED",
                          v_ratio |-> loc.v_ratio, significance |-> loc.significance,
                          retained |-> Counts])
    /\ pc' = "done"
    /\ UNCHANGED <<call, args, loc, env>>

\* 06_jwst_p6_mask_aware.py
MaskAwareSide == 10
\* lines 47-50: "counts_array > np.median(counts_array) * 0.9"
AboveThreshold_nonstrict(count, counts) == 20 * count >= 9 * Median2(counts)
AboveThreshold(count, counts) == 20 * count > 9 * Median2(counts)
ma_filter ==
    /\ call = "run_mask_aware_p6_audit" /\ pc = "ma_filter"
    /\ loc' = Assign(loc, "filtered_counts",
                     SelectSeq2(Counts,
                                [i \in 1..Len(Counts) |->
                                    AboveThreshold(Counts[i], Counts)]))
    /\ pc' = "ma_ratio"
    /\ UNCHANGED <<call, args, ret, env>>
\* lines 52-58; "2 / n_patches" divides Python integers
ma_ratio ==
    /\ call = "run_mask_aware_p6_audit" /\ pc = "ma_ratio"
    /\ IF Len(loc.filtered_counts) = 0
       THEN /\ ret' = Raise(57, "ZeroDivisionError")
            /\ pc' = "done"
            /\ loc' = loc
       ELSE /\ loc' = Assign(Assign(Assign(loc, "n_patches", Len(loc.filtered_counts)),
                         "v_ratio", VRatio(loc.filtered_counts)),
                         "significance", Significance(VRatio(loc.filtered_counts),
                                                      Len(loc.filtered_counts)))
            /\ pc' = "ma_results"
            /\ ret' = ret
    /\ UNCHANGED <<call, args, env>>
\* lines 65-75
ma_results ==
    /\ call = "run_mask_aware_p6_audit" /\ pc = "ma_results"
    /\ ret' = Return(75, [verdict |-> IF SigGreater3(loc.significance)
                                      THEN "COUPLED" ELSE "BALANCED",
                          v_ratio |-> loc.v_ratio, significance |-> loc.significance,
                          retained |-> loc.filtered_counts])
    /\ pc' = "done"
    /\ UNCHANGED <<call, args, loc, env>>

\* p6_cosmos_audit.py
GRID_SIZE == 10
\* in hundredths
OCCUPANCY_THRESHOLD == 90
\* lines 111-132, in hundredths, for row i and column j counted from 0
calculate_occupancy(i, j, grid_size) ==
    LET edge_i == i = 0 \/ i = grid_size - 1
        edge_j == j = 0 \/ j = grid_size - 1
    IN  IF edge_i /\ edge_j THEN 60 ELSE IF edge_i \/ edge_j THEN 75 ELSE 100
\* run_p6_audit, called with a table or from the script's main block
InP6 == call \in {"run_p6_audit", "p6_cosmos_main"}
\* "hist" of lines 149-153, row-major
Hist == IF Has("hist") THEN loc.hist ELSE args.hist
\* lines 155-172
cp_filter ==
    /\ InP6 /\ pc = "cp_filter"
    /\ loc' = Assign(loc, "valid_patches",
                     SelectSeq2(Hist,
                                [k \in 1..Len(Hist) |->
                                    calculate_occupancy((k - 1) \div GRID_SIZE,
                                                        (k - 1) % GRID_SIZE, GRID_SIZE)
                                        >= OCCUPANCY_THRESHOLD]))
    /\ pc' = "cp_ratio"
    /\ UNCHANGED <<call, args, ret, env>>
\* lines 175-186; "2 / (M - 1)" divides Python integers
cp_ratio ==
    /\ InP6 /\ pc = "cp_ratio"
    /\ IF Len(loc.valid_patches) = 1
       THEN /\ ret' = Raise(185, "ZeroDivisionError")
            /\ pc' = "done"
            /\ loc' = loc
       ELSE /\ loc' = Assign(Assign(Assign(loc, "M", Len(loc.valid_patches)),
                         "v_ratio", VRatioDdof1(loc.valid_patches)),
                         "significance", Significance(VRatioDdof1(loc.valid_patches),
                                                      Len(loc.valid_patches) - 1))
            /\ pc' = "cp_return"
            /\ ret' = ret
    /\ UNCHANGED <<call, args, env>>
\* lines 195-201; in the script the value is bound to results at line 217
P6Results ==
    [verdict |-> IF FGreater(loc.v_ratio, 10) THEN "Gravity-Dominated" ELSE "Poisson-Like",
     v_ratio |-> loc.v_ratio, significance |-> loc.significance,
     retained |-> loc.valid_patches]
cp_return ==
    /\ InP6 /\ pc = "cp_return"
    /\ IF call = "p6_cosmos_main"
       THEN /\ loc' = Assign(loc, "results", P6Results)
            /\ pc' = "cm_save"
            /\ ret' = ret
       ELSE /\ ret' = Return(195, P6Results)
            /\ pc' = "done"
            /\ loc' = loc
    /\ UNCHANGED <<call, args, env>>

MaxObjects == 3
MaxAngles == 2
RObsVals == {-3, 0, 3, 4}
RotatedStats == [1..2 -> {-1, 0, 1}]
Curves(len, S) == [1..len -> S]
InjectionTables == [1..2 -> [1..2 -> {0, 1}]]
Seeds == {0, 42}
Nsims == {2, 3}
CatalogRows ==
    {[Z |-> 0, WEIGHT_SYS |-> 1, WEIGHT_COMP |-> 1],
     [Z |-> 1, WEIGHT_SYS |-> 2, WEIGHT_COMP |-> 1],
     [Z |-> 2, WEIGHT_SYS |-> 1, WEIGHT_COMP |-> 2],
     [Z |-> 2, WEIGHT_SYS |-> 2, WEIGHT_COMP |-> 1]}
\* a catalogue of n rows whose RA increase or decrease along the file
Catalogs(n) ==
    {[i \in 1..n |-> [Z |-> rows[i].Z, WEIGHT_SYS |-> rows[i].WEIGHT_SYS,
                      WEIGHT_COMP |-> rows[i].WEIGHT_COMP,
                      RA |-> IF ascending THEN i ELSE n + 1 - i]] :
        rows \in [1..n -> CatalogRows], ascending \in BOOLEAN}
JackknifeCounts == {0, 1, 2, 3, DefaultJackknife}
\* len counts: hi in the first k patches, lo in the others
CountPattern(len, k, lo, hi) == [i \in 1..len |-> IF i <= k THEN hi ELSE lo]
CountPatterns(len) ==
    {CountPattern(len, k, lo, hi) : k \in {0, 5, 9, 16, 50, 64, 100} \cap 0..len,
                                    lo \in {0, 1}, hi \in {2, 40}}
        \cup {CountPattern(len, k, 9, 10) : k \in {5, 64} \cap 0..len}

InitAudit ==
    /\ loc = NoLocals
    /\ ret = NoRet
    /\ \/ /\ call \in {"robust_audit", "run_smica_audit"}
          /\ args \in [r_obs : RObsVals, r_of : RotatedStats]
          /\ pc = FirstPc
          /\ \E state \in RngStates : env = [rng |-> Unseeded(state), run |-> 1, first |-> NoRet]
       \/ /\ call = "p6_corrected_audit"
          /\ \E len \in 1..MaxAngles :
                args \in [signal_curve : Curves(len, {0, 3}),
                          curve_of : [1..2 -> Curves(len, {0, 1})]]
          /\ pc = FirstPc
          /\ \E state \in RngStates : env = [rng |-> Unseeded(state), run |-> 1, first |-> NoRet]
       \/ /\ call = "run_injection"
          /\ args \in [seed : Seeds, nsims : Nsims, s_gamma_of : InjectionTables]
          /\ pc = FirstPc
          /\ \E state \in RngStates : env = [rng |-> Unseeded(state), run |-> 1, first |-> NoRet]
       \/ /\ call = "run_robust_p5_audit"
          /\ \E n \in 0..MaxObjects : args \in [data : Catalogs(n), n_jackknife : JackknifeCounts]
          /\ pc = "jk_global"
          /\ env = [rng |-> Unseeded(0), run |-> 1, first |-> NoRet]
       \/ /\ call = "run_robust_p6_audit"
          /\ args \in [counts : CountPatterns(JwstSide * JwstSide)]
          /\ pc = "jw_ratio"
          /\ env = [rng |-> Unseeded(0), run |-> 1, first |-> NoRet]
       \/ /\ call = "run_mask_aware_p6_audit"
          /\ args \in [counts : CountPatterns(MaskAwareSide * MaskAwareSide)]
          /\ pc = "ma_filter"
          /\ env = [rng |-> Unseeded(0), run |-> 1, first |-> NoRet]
       \/ /\ call = "run_p6_audit"
          /\ args \in [hist : CountPatterns(GRID_SIZE * GRID_SIZE)]
          /\ pc = "cp_filter"
          /\ env = [rng |-> Unseeded(0), run |-> 1, first |-> NoRet]

NextAudit ==
    \/ ra_rotations \/ ra_analysis \/ ra_verdict
    \/ sm_rotations \/ sm_analysis \/ sm_verdict
    \/ pc_shuffles \/ pc_significance
    \/ ri_seed \/ ri_context \/ ri_simulate \/ ri_save
    \/ second_run
    \/ jk_global \/ jk_split \/ jk_loop \/ jk_stats \/ jk_results
    \/ jw_ratio \/ jw_results
    \/ ma_filter \/ ma_ratio \/ ma_results
    \/ cp_filter \/ cp_ratio \/ cp_return

SpecAudit == InitAudit /\ [][NextAudit]_vars

AuditReturned == pc = "done" /\ ret.kind = "return"
\* the sum over i of (N x_i - sum(x))^2, which is N^2 times the sum of the
\* squared deviations from the mean
SumSqDev(x) ==
    LET total == SumSeq(x)
    IN  SumSeq([i \in 1..Len(x) |-> (Len(x) * x[i] - total) * (Len(x) * x[i] - total)])

PositiveVerdicts == {"REAL", "PERSISTENT", "DETECTION", "COUPLED", "Gravity-Dominated"}
NegativeVerdicts == {"FAKE", "ARTIFACT", "NULL", "BALANCED", "Poisson-Like"}
\* the z-score or significance the audit reports is strictly above 3 (in
\* absolute value for a z-score)
ReportedAboveThree ==
    IF call \in {"robust_audit", "run_smica_audit"}
    THEN LET z == ret.val.z_score
         IN  (z.den2 = 0 /\ z.num # 0) \/ (z.den2 > 0 /\ z.num * z.num > 9 * z.den2)
    ELSE IF call = "run_robust_p5_audit"
    THEN LET q == ret.val.significance_squared
         IN  (q.d = 0 /\ q.n > 0) \/ (q.d > 0 /\ q.n > 9 * q.d)
    ELSE SigGreater3(ret.val.significance)
HasVerdict ==
    /\ call \in {"robust_audit", "run_smica_audit", "run_robust_p5_audit",
                 "run_robust_p6_audit", "run_mask_aware_p6_audit", "run_p6_audit"}
    /\ AuditReturned

\* C15: every audit reports its positive verdict exactly when the z-score
\* (in absolute value) or the significance it reports is strictly greater
\* than 3, and its negative verdict otherwise.
C15_VerdictIffAboveThree ==
    HasVerdict =>
        /\ ret.val.verdict \in PositiveVerdicts \cup NegativeVerdicts
        /\ ret.val.verdict \in PositiveVerdicts <=> ReportedAboveThree

\* the z-scores an audit reports, each with its observed value and ensemble
ReportedZScores ==
    IF call = "robust_audit"
    THEN {[z |-> loc.z_score, s_obs |-> args.r_obs, nulls |-> loc.null_corrs]}
    ELSE IF call = "run_smica_audit"
    THEN {[z |-> loc.z_score, s_obs |-> args.r_obs, nulls |-> loc.nulls]}
    ELSE {[z |-> loc.significance[k], s_obs |-> args.signal_curve[k],
           nulls |-> CurveColumn(loc.noise_curves, k)] : k \in 1..Len(args.signal_curve)}
IsNullAudit == call \in {"robust_audit", "run_smica_audit", "p6_corrected_audit"}
\* z = (s_obs - m) / s for the mean m of the ensemble and the s with
\* s^2 = (sum of squared deviations from m) / (N - ddof)
IsZScoreWith(r, ddof) ==
    LET N == Len(r.nulls)
    IN  /\ r.z.num = N * r.s_obs - SumSeq(r.nulls)
        /\ r.z.den2 * (N - ddof) = SumSqDev(r.nulls)

\* C16: for rotation and permutation nulls the reported z-score is
\* (s_obs - m) / s with m the mean and s the sample standard deviation
\* (divisor N - 1) of the N null values.
C16_ZScoreWithSampleStd ==
    (IsNullAudit /\ AuditReturned) => \A r \in ReportedZScores : IsZScoreWith(r, 1)

\* C16 as the code has it: s is the standard deviation with divisor N
\* (np.std with its default ddof = 0).
C16_ZScoreWithPopulationStd ==
    (IsNullAudit /\ AuditReturned) => \A r \in ReportedZScores : IsZScoreWith(r, 0)

\* a rotation null whose ensemble is not constant gave a finite nonzero z
C16_Witness ==
    /\ call = "robust_audit" /\ AuditReturned
    /\ loc.z_score.den2 > 0 /\ loc.z_score.num # 0
    /\ SumSeq(loc.null_corrs) # 0

\* C17: the jackknife error is sqrt(((K-1)/K) * sum_i (s_i - mean(s))^2)
\* over the K leave-one-out values, and the significance is |s_obs| over
\* that error with s_obs the statistic of the full dataset (both compared
\* as squares; sum_i (s_i - mean)^2 is evaluated as
\* sum_i s_i^2 - (sum_i s_i)^2 / K).
FullDatasetStatistic ==
    LET d == args.data
        n == Len(d)
    IN  FSub(FReduce(Frac(SumSeq([i \in 1..n |-> d[i].Z * d[i].WEIGHT_SYS]),
                          SumSeq([i \in 1..n |-> d[i].WEIGHT_SYS]))),
             FReduce(Frac(SumSeq([i \in 1..n |-> d[i].Z * d[i].WEIGHT_COMP]),
                          SumSeq([i \in 1..n |-> d[i].WEIGHT_COMP]))))
JackknifeErrorSquared(s) ==
    LET K == Len(s)
        total == FSum(s)
        squares == FSum([i \in 1..K |-> FMul(s[i], s[i])])
    IN  FMul(Frac(K - 1, K), FSub(squares, FMul(FMul(total, total), Frac(1, K))))
C17_JackknifeErrorAndSignificance ==
    (call = "run_robust_p5_audit" /\ AuditReturned) =>
        LET s_obs == FullDatasetStatistic
            error_squared == JackknifeErrorSquared(loc.jk_shifts)
        IN  /\ Len(loc.jk_shifts) = args.n_jackknife
            /\ ret.val.global_dz = s_obs
            /\ ret.val.error_bar_squared = error_squared
            /\ ret.val.significance_squared = FDiv(FMul(s_obs, s_obs), error_squared)

\* three partitions of a three-row catalogue gave a nonzero error and a
\* nonzero shift
C17_Witness ==
    /\ call = "run_robust_p5_audit" /\ AuditReturned
    /\ args.n_jackknife = 3 /\ Len(args.data) = 3
    /\ ret.val.error_bar_squared.n > 0
    /\ ret.val.global_dz.n # 0

IsVarianceAudit == call \in {"run_robust_p6_audit", "run_mask_aware_p6_audit", "run_p6_audit"}
\* (sample variance, divisor M - 1) / (sample mean)
SampleVarianceRatio(counts) ==
    FReduce(Frac(SumSqDev(counts) \div Len(counts), (Len(counts) - 1) * SumSeq(counts)))

\* C18: V is the sample variance over the sample mean of the M retained
\* counts and the significance is (V - 1) / sqrt(2 / (M - 1)), in every
\* variance-ratio audit.
C18_SameEstimatorInEveryAudit ==
    (IsVarianceAudit /\ AuditReturned) =>
        /\ ret.val.v_ratio = SampleVarianceRatio(ret.val.retained)
        /\ ret.val.significance.num = FSub(SampleVarianceRatio(ret.val.retained), Frac(1, 1))
        /\ ret.val.significance.den2 = FReduce(Frac(2, Len(ret.val.retained) - 1))

\* the retained partitions (non-empty splits) and the retained bins
TooFewSamples ==
    \/ /\ call = "run_robust_p5_audit"
       /\ \/ args.n_jackknife < 2
          \/ Len(args.data) < 2
    \/ /\ call = "run_mask_aware_p6_audit"
       /\ Has("filtered_counts") /\ Len(loc.filtered_counts) < 10
    \/ /\ call = "run_p6_audit"
       /\ Has("valid_patches") /\ Len(loc.valid_patches) < 10

\* C19: a jackknife with fewer than 2 retained partitions, or a Variance
\* Ratio from fewer than 10 retained bins, ends by raising and reports no
\* error estimate, significance or verdict.
C19_TooFewSamplesFail ==
    (TooFewSamples /\ pc = "done") => ret.kind = "raise"

\* C20: a Monte-Carlo audit draws only from a generator seeded in that
\* run, and a second run on the same inputs (and seed) reports the same
\* ensemble, the same z-score and the same verdict as the first.
C20_SeededAndReproducible ==
    (IsMonteCarlo /\ pc = "done") =>
        /\ env.rng.seeded
        /\ env.run = 2 => ret = env.first

(***************************************************************************)
(* The catalogue audits from the file to the patch counts.  A catalogue is *)
(* a sequence of sources with small integer coordinates; lp_zBEST (lp_zPDF *)
(* in p6_cosmos_audit.py) is the field z.  The edges np.linspace(lo, hi,   *)
(* n + 1) are lo + k (hi - lo) / n, so "x >= edge k" is                    *)
(* n (x - lo) >= k (hi - lo); the last edge is hi itself.                  *)
(***************************************************************************)
\* "(data[z_col] > 3.0) & (data[z_col] < 6.0)"
InZone(z) == z > 3 /\ z < 6
MinOf(rows, col) == CHOOSE m \in {rows[i][col] : i \in 1..Len(rows)} :
                        \A i \in 1..Len(rows) : m <= rows[i][col]
MaxOf(rows, col) == CHOOSE m \in {rows[i][col] : i \in 1..Len(rows)} :
                        \A i \in 1..Len(rows) : m >= rows[i][col]
\* "(x >= bins[k]) & (x < bins[k+1])" for k counted from 0
InPatch(x, lo, hi, n, k) ==
    /\ n * (x - lo) >= k * (hi - lo)
    /\ n * (x - lo) < (k + 1) * (hi - lo)
\* the loops over i and j, appending the count of patch (i, j)
PatchCounts(rows, n) ==
    LET ra_lo == MinOf(rows, "ALPHA_J2000")
        ra_hi == MaxOf(rows, "ALPHA_J2000")
        dec_lo == MinOf(rows, "DELTA_J2000")
        dec_hi == MaxOf(rows, "DELTA_J2000")
    IN  [p \in 1..(n * n) |->
            Cardinality({s \in 1..Len(rows) :
                /\ InPatch(rows[s].ALPHA_J2000, ra_lo, ra_hi, n, (p - 1) \div n)
                /\ InPatch(rows[s].DELTA_J2000, dec_lo, dec_hi, n, (p - 1) % n)})]
\* np.histogram2d with explicit edges: every bin is half-open but the last,
\* which holds the values equal to the last edge
InBin(x, lo, hi, n, k) == InPatch(x, lo, hi, n, k) \/ (k = n - 1 /\ x = hi)
Histogram2d(rows, n) ==
    LET ra_lo == MinOf(rows, "ALPHA_J2000")
        ra_hi == MaxOf(rows, "ALPHA_J2000")
        dec_lo == MinOf(rows, "DELTA_J2000")
        dec_hi == MaxOf(rows, "DELTA_J2000")
    IN  [p \in 1..(n * n) |->
            Cardinality({s \in 1..Len(rows) :
                /\ InBin(rows[s].ALPHA_J2000, ra_lo, ra_hi, n, (p - 1) \div n)
                /\ InBin(rows[s].DELTA_J2000, dec_lo, dec_hi, n, (p - 1) % n)})]

\* 06_jwst_p6_audit.py, 06_jwst_p6_mask_aware.py and 06_p6_verify.py share
\* their first half
InGrid == call \in {"run_robust_p6_audit", "run_mask_aware_p6_audit", "verify_p6_geometry"}
VerifySide == 4
GridSide ==
    IF call = "run_robust_p6_audit" THEN JwstSide
    ELSE IF call = "run_mask_aware_p6_audit" THEN MaskAwareSide ELSE VerifySide
\* lines 11-13 of both audits: "if not os.path.exists(cat_path): ... return"
gc_exists ==
    /\ InGrid /\ pc = "gc_exists"
    /\ IF env.catalog.kind = "missing"
       THEN /\ ret' = Return(13, "None")
            /\ pc' = "done"
       ELSE /\ ret' = ret
            /\ pc' = "gc_read"
    /\ UNCHANGED <<call, args, loc, env>>
\* 06_jwst_p6_audit.py lines 16-38 (no flag cut), 06_jwst_p6_mask_aware.py
\* lines 16-21, 06_p6_verify.py lines 12-15 (no test that the file exists)
gc_read ==
    /\ InGrid /\ pc = "gc_read"
    /\ IF env.catalog.kind = "missing"
       THEN /\ ret' = Raise(12, "OSError")
            /\ pc' = "done"
            /\ loc' = loc
       ELSE /\ loc' = Assign(Assign(loc, "data", env.catalog.data), "clean_data",
                      SelectSeq2(env.catalog.data,
                                 [s \in 1..Len(env.catalog.data) |->
                                     /\ InZone(env.catalog.data[s].z)
                                     /\ \/ call = "run_robust_p6_audit"
                                        \/ env.catalog.data[s].FLAG_COMBINED = 0]))
            /\ pc' = "gc_count"
            /\ ret' = ret
    /\ UNCHANGED <<call, args, env>>
\* 06_jwst_p6_audit.py lines 42-53, 06_jwst_p6_mask_aware.py lines 24-48,
\* 06_p6_verify.py lines 20-33; ".min()" of no rows raises ValueError
gc_count ==
    /\ InGrid /\ pc = "gc_count"
    /\ IF loc.clean_data = <<>>
       THEN /\ ret' = Raise(IF call = "run_robust_p6_audit" THEN 43
                            ELSE IF call = "run_mask_aware_p6_audit" THEN 25 ELSE 21,
                            "ValueError")
            /\ pc' = "done"
            /\ loc' = loc
       ELSE /\ loc' = Assign(loc, "counts", PatchCounts(loc.clean_data, GridSide))
            /\ pc' = IF call = "run_robust_p6_audit" THEN "jw_ratio"
                     ELSE IF call = "run_mask_aware_p6_audit" THEN "ma_filter"
                     ELSE "vg_ratio"
            /\ ret' = ret
    /\ UNCHANGED <<call, args, env>>
\* 06_p6_verify.py lines 33-35
vg_ratio ==
    /\ call = "verify_p6_geometry" /\ pc = "vg_ratio"
    /\ loc' = Assign(loc, "v_ratio", VRatio(loc.counts))
    /\ ret' = Return(35, "None")
    /\ pc' = "done"
    /\ UNCHANGED <<call, args, env>>

\* p6_cosmos_audit.py lines 54-109: np.random.seed(42) makes the generated
\* catalogue the same in every run; it is held as one fixed table
generate_synthetic_data ==
    <<[ALPHA_J2000 |-> 0, DELTA_J2000 |-> 0, z |-> 4, FLAG_COMBINED |-> 0],
      [ALPHA_J2000 |-> 5, DELTA_J2000 |-> 5, z |-> 4, FLAG_COMBINED |-> 0],
      [ALPHA_J2000 |-> 5, DELTA_J2000 |-> 5, z |-> 5, FLAG_COMBINED |-> 0],
      [ALPHA_J2000 |-> 3, DELTA_J2000 |-> 7, z |-> 4, FLAG_COMBINED |-> 0],
      [ALPHA_J2000 |-> 10, DELTA_J2000 |-> 10, z |-> 5, FLAG_COMBINED |-> 0]>>
\* lines 41-52: the file is never opened
load_cosmos_data(filepath) == generate_synthetic_data
\* lines 209-215
cm_load ==
    /\ call = "p6_cosmos_main" /\ pc = "cm_load"
    /\ IF args.mode = "audit" /\ args.file = "None"
       THEN /\ ret' = Raise(212, "SystemExit")
            /\ pc' = "done"
            /\ loc' = loc
       ELSE /\ loc' = Assign(loc, "data", IF args.mode = "audit"
                                          THEN load_cosmos_data(args.file)
                                          ELSE generate_synthetic_data)
            /\ pc' = "cp_hist"
            /\ ret' = ret
    /\ UNCHANGED <<call, args, env>>
\* lines 138-153; the generated catalogue has sources with 3 < z < 6
cp_hist ==
    /\ call = "p6_cosmos_main" /\ pc = "cp_hist"
    /\ LET subset == SelectSeq2(loc.data, [s \in 1..Len(loc.data) |-> InZone(loc.data[s].z)])
       IN  loc' = Assign(Assign(loc, "subset", subset), "hist", Histogram2d(subset, GRID_SIZE))
    /\ pc' = "cp_filter"
    /\ UNCHANGED <<call, args, ret, env>>
\* lines 219-227
cm_save ==
    /\ call = "p6_cosmos_main" /\ pc = "cm_save"
    /\ env' = [env EXCEPT !.saved = Append(@, [path |-> "p6_audit_result.json",
                                                data |-> loc.results])]
    /\ ret' = Return(227, "None")
    /\ pc' = "done"
    /\ UNCHANGED <<call, args, loc>>

\* p6_corrected_audit.py lines 43-50 and 67-72 (N_SHUFFLES realizations) and
\* p6_final_clean_audit.py lines 75-85 (20 realizations).  env.df_data is the
\* caller's table object; a table local to the call is held with the fact
\* whether it is that same object, so that writing a column of an alias
\* writes the caller's table.
InShuffles == call \in {"p6_corrected_audit", "p6_clean_audit"}
CleanShuffles == 20
ShufflesWanted == IF call = "p6_corrected_audit" THEN N_SHUFFLES ELSE CleanShuffles
ShufflesDone == IF Has("i") THEN loc.i ELSE 0
\* "df_new = df.copy()"
DfCopy_alias(df) == [alias |-> TRUE, rows |-> df]
DfCopy(df) == [alias |-> FALSE, rows |-> df]
\* "df_new['ra'] = values": the column is replaced, the others kept
SetRa(rows, values) == [k \in 1..Len(rows) |-> [rows[k] EXCEPT !.ra = values[k]]]
\* the outcomes of np.random.permutation(x)
PermutationsOf(x) ==
    {[k \in 1..Len(x) |-> x[perm[k]]] :
        perm \in {f \in [1..Len(x) -> 1..Len(x)] : \A a, b \in 1..Len(x) : f[a] = f[b] => a = b}}
\* "for i in range(N_SHUFFLES)": lines 69 and 75
gs_loop ==
    /\ InShuffles /\ pc = "gs_loop"
    /\ IF ShufflesDone < ShufflesWanted
       THEN /\ pc' = "gs_copy"
            /\ ret' = ret
       ELSE /\ pc' = "done"
            /\ ret' = Return(IF call = "p6_corrected_audit" THEN 72 ELSE 85, "None")
    /\ UNCHANGED <<call, args, loc, env>>
\* lines 48 and 77
gs_copy ==
    /\ InShuffles /\ pc = "gs_copy"
    /\ loc' = Assign(loc, "df_new", DfCopy(env.df_data))
    /\ pc' = "gs_permute"
    /\ UNCHANGED <<call, args, ret, env>>
\* lines 49-50 and 78; the curve of the realization (lines 71-72, 81-85) is
\* a function of df_new and is not kept here
gs_permute ==
    /\ InShuffles /\ pc = "gs_permute"
    /\ \E values \in PermutationsOf([k \in 1..Len(env.df_data) |-> env.df_data[k].ra]) :
          /\ loc' = Assign(Assign(loc, "df_new",
                                  [loc.df_new EXCEPT !.rows = SetRa(@, values)]),
                           "i", ShufflesDone + 1)
          /\ env' = IF loc.df_new.alias
                    THEN [env EXCEPT !.df_data = SetRa(@, values)]
                    ELSE env
    /\ pc' = "gs_loop"
    /\ UNCHANGED <<call, args, ret>>

DfRows == {[ra |-> 0, dec |-> 0], [ra |-> 1, dec |-> 1], [ra |-> 2, dec |-> 0]}
Dfs == UNION {[1..n -> DfRows] : n \in 0..MaxObjects}

CatalogSources ==
    {[ALPHA_J2000 |-> 0, DELTA_J2000 |-> 0, z |-> 4, FLAG_COMBINED |-> 0],
     [ALPHA_J2000 |-> 1, DELTA_J2000 |-> 2, z |-> 4, FLAG_COMBINED |-> 0],
     [ALPHA_J2000 |-> 2, DELTA_J2000 |-> 2, z |-> 5, FLAG_COMBINED |-> 1],
     [ALPHA_J2000 |-> 4, DELTA_J2000 |-> 0, z |-> 4, FLAG_COMBINED |-> 0],
     [ALPHA_J2000 |-> 4, DELTA_J2000 |-> 4, z |-> 5, FLAG_COMBINED |-> 0],
     [ALPHA_J2000 |-> 3, DELTA_J2000 |-> 1, z |-> 7, FLAG_COMBINED |-> 0]}
CatalogFiles ==
    {Missing} \cup {OnDisk("table", data) : data \in UNION {[1..n -> CatalogSources] :
                                                             n \in 0..MaxObjects}}

InitCatalog ==
    /\ loc = NoLocals
    /\ ret = NoRet
    /\ \/ /\ call \in {"run_robust_p6_audit", "run_mask_aware_p6_audit"}
          /\ args = <<>>
          /\ pc = "gc_exists"
          /\ \E file \in CatalogFiles : env = [catalog |-> file, saved |-> <<>>]
       \/ /\ call = "verify_p6_geometry"
          /\ args = <<>>
          /\ pc = "gc_read"
          /\ \E file \in CatalogFiles : env = [catalog |-> file, saved |-> <<>>]
       \/ /\ call = "p6_cosmos_main"
          /\ args \in [mode : {"audit", "reproduce"}, file : {"None", "catalog"}]
          /\ pc = "cm_load"
          /\ \E file \in CatalogFiles : env = [catalog |-> file, saved |-> <<>>]
       \/ /\ call \in {"p6_corrected_audit", "p6_clean_audit"}
          /\ \E df \in Dfs : args = [df |-> df] /\ env = [df_data |-> df]
          /\ pc = "gs_loop"

NextCatalog ==
    \/ gc_exists \/ gc_read \/ gc_count \/ vg_ratio
    \/ jw_ratio \/ jw_results
    \/ ma_filter \/ ma_ratio \/ ma_results
    \/ cm_load \/ cp_hist \/ cp_filter \/ cp_ratio \/ cp_return \/ cm_save
    \/ gs_loop \/ gs_copy \/ gs_permute

SpecCatalog == InitCatalog /\ [][NextCatalog]_vars

\* the run was asked to audit a catalogue file
FileRequested == call = "p6_cosmos_main" /\ args.mode = "audit"
FileIsRead == args.file # "None" /\ env.catalog.kind # "missing"
\* C21: no audit substitutes generated data for its input: asked to audit a
\* file that is not given or absent, the run ends with an error and saves no
\* result; given a file, the table it analyses is the contents of that file.
C21_NoSyntheticSubstitute ==
    (FileRequested /\ pc = "done") =>
        IF FileIsRead
        THEN ret.kind = "return" => loc.data = env.catalog.data
        ELSE ret.kind = "raise" /\ env.saved = <<>>

\* diag(d), and what each function returns for a full covariance
DiagMatrix(d) == [ndim |-> 2, a |-> [i \in 1..Len(d) |-> [j \in 1..Len(d) |->
                                       IF i = j THEN d[i] ELSE 0]]]
WoodburyOf(sigma_te, c, lambda_gamma) ==
    LET v == Woodbury_v(sigma_te, c)
    IN  Woodbury_result(sigma_te,
            Woodbury_update(Woodbury_scale(lambda_gamma, Woodbury_k(lambda_gamma, c, v)), v))
MeanShiftOf(mu_te, sigma_te, c, lambda_gamma) ==
    LET v == MeanShift_v(sigma_te, c)
    IN  MeanShift_delta_mu(lambda_gamma, MeanShift_overlap(mu_te, c),
                           MeanShift_k(lambda_gamma, c, v), v)
DiagonalCallReturned ==
    /\ pc = "done" /\ ret.kind = "return"
    /\ args.sigma_te.ndim = 1 /\ Len(args.sigma_te.a) = Len(args.c)
\* C22: with Sigma passed as the diagonal d, woodbury_update_covariance
\* returns the matrix it returns for diag(d), and calculate_mean_shift the
\* shift it returns for diag(d).
C22_DiagonalFormEquivalent ==
    DiagonalCallReturned =>
        IF call = "woodbury_update_covariance"
        THEN LET full == WoodburyOf(DiagMatrix(args.sigma_te.a), args.c, args.lambda_gamma)
             IN  \A i, j \in 1..Len(args.c) : FracEq(ret.val.a[i][j], full.a[i][j])
        ELSE LET full == MeanShiftOf(args.mu_te, DiagMatrix(args.sigma_te.a), args.c,
                                     args.lambda_gamma)
             IN  \A i \in 1..Len(args.c) : FracEq(ret.val[i], full[i])

\* the rows of one exclusion set, and the rows outside it in file order
SplitRows(i) == {loc.splits[i][k] : k \in 1..Len(loc.splits[i])}
RowsOutside(i) ==
    SelectSeq2(AllRows(args.data), [r \in 1..Len(args.data) |-> r \notin SplitRows(i)])
\* no row outside the set has its RA between the RA of two rows of the set
ContiguousInRA(i) ==
    \A a, b \in SplitRows(i) : \A r \in 1..Len(args.data) :
        (args.data[a].RA < args.data[r].RA /\ args.data[r].RA < args.data[b].RA)
            => r \in SplitRows(i)
\* C23: the K exclusion sets of the spatial jackknife are contiguous in RA
\* order, pairwise disjoint and cover the catalogue, so every object is
\* left out of exactly one realization; when the resampling loop completes
\* it has produced exactly K values, the i-th computed on exactly the
\* objects outside the i-th set.
C23_JackknifePartition ==
    (call = "run_robust_p5_audit" /\ Has("splits")) =>
        /\ Len(loc.splits) = args.n_jackknife
        /\ \A i \in 1..args.n_jackknife :
              ContiguousInRA(i) /\ Cardinality(SplitRows(i)) = Len(loc.splits[i])
        /\ \A r \in 1..Len(args.data) :
              Cardinality({i \in 1..args.n_jackknife : r \in SplitRows(i)}) = 1
        /\ Has("jk_shifts") =>
              /\ Len(loc.jk_shifts) = args.n_jackknife
              /\ \A i \in 1..args.n_jackknife :
                    loc.jk_shifts[i] = get_dz(args.data, RowsOutside(i))
\* three objects stored by decreasing RA, two bins: the loop has completed
C23_Witness ==
    /\ call = "run_robust_p5_audit" /\ Has("jk_shifts")
    /\ args.n_jackknife = 2 /\ Len(args.data) = 3
    /\ args.data[1].RA > args.data[2].RA

\* the entries of x at the positions in keep, in order
Retained(x, keep) == SelectSeq2(x, [k \in 1..Len(x) |-> k \in keep])
SameRaMultiset(x, y) ==
    /\ Len(x) = Len(y)
    /\ \A k \in 1..Len(x) :
          Cardinality({a \in 1..Len(x) : x[a].ra = x[k].ra})
              = Cardinality({a \in 1..Len(y) : y[a].ra = x[k].ra})
\* C25: building a permutation-null realization leaves the observed
\* catalogue as it was (args.df is its value when the run started), and
\* the realization has the same multiset of RA and the same Dec in the
\* same row order as the observed catalogue.
C25_ShuffleOfTheOriginal ==
    InShuffles =>
        /\ env.df_data = args.df
        /\ (Has("df_new") /\ pc # "gs_permute") =>
              /\ SameRaMultiset(loc.df_new.rows, args.df)
              /\ \A k \in 1..Len(args.df) : loc.df_new.rows[k].dec = args.df[k].dec
\* the second realization of three objects, its RA column really permuted
C25_Witness ==
    /\ InShuffles /\ pc = "gs_loop" /\ ShufflesDone = 2
    /\ Len(args.df) = 3
    /\ \E k \in 1..3 : loc.df_new.rows[k].ra # args.df[k].ra

\* C26: in the grid-count audits whose edges span the minimum to the
\* maximum RA and Dec of the selected sources, the patch counts sum to the
\* number of selected sources, those on the maximum-RA or maximum-Dec edge
\* included.
C26_EverySourceCountedOnce ==
    (InGrid /\ Has("counts")) => SumSeq(loc.counts) = Len(loc.clean_data)

(***************************************************************************)
(* The alignment diagnostic on the inputs of InitPhase, with the degree    *)
(* range drawn from fewer values: from degree 0 or 1 up to degree 0 or     *)
(* MaxL (from 1 up to 0 selects nothing).                                  *)
(***************************************************************************)
ScaleMinDegrees == {0, 1}
ScaleMaxDegrees == {0, MaxL}
InitScale ==
    /\ call = "calc_phase_alignment"
    /\ \E n \in AlmSizes, lmin \in ScaleMinDegrees, lmax \in ScaleMaxDegrees :
       \E alm_ctx \in Vectors(CtxCoeffs, n) :
       \E alm_cmb \in {alm_ctx, Neg(alm_ctx)}
                      \cup UNION {Vectors(CmbCoeffs, m) : m \in AlmSizes} :
          args = [alm_cmb |-> alm_cmb, alm_ctx |-> alm_ctx, lmin |-> lmin, lmax |-> lmax]
    /\ loc = NoLocals
    /\ pc = "pa_check"
    /\ ret = NoRet
    /\ env = NoEnv
SpecScale == InitScale /\ [][NextPhase]_vars

\* what calc_phase_alignment returns for equal-length vectors a and b whose
\* degree mask is mask (lines 29-59)
PhaseValue(a, b, mask) ==
    LET delta_phi == [i \in 1..Len(a) |-> Angle(a[i]) - Angle(b[i])]
        weights == [i \in 1..Len(b) |-> AbsC(b[i])]
        numerator == Numerator(weights, delta_phi, mask)
        denominator == Denominator(weights, mask)
    IN  IF MaskCount(mask) = 0 THEN Return(48, Frac(0, 1))
        ELSE IF denominator = 0 THEN Return(57, Frac(0, 1))
        ELSE Return(59, Frac(numerator, denominator))
\* what calc_phase_alignment returns for the vectors a and b (lines 24-59)
PhaseOf(a, b, lmin, lmax) ==
    IF SizeMismatch(a, b) THEN Raise(25, "ValueError")
    ELSE PhaseValue(a, b, DegreeMask(GetEll(GetLmax(Len(a))), lmin, lmax))
\* a vector multiplied by the positive number s
Scaled(s, alm) == [i \in 1..Len(alm) |-> <<s * alm[i][1], s * alm[i][2]>>]
Scales == {2, 3}
SameResult(x, y) ==
    /\ x.kind = y.kind
    /\ x.kind = "return" => FracEq(x.val, y.val)
\* C27: the value calc_phase_alignment returns is the value it returns when
\* either coefficient vector is multiplied by a positive number (the degree
\* mask depends on the length and the degree range only).
C27_ScaleInvariant ==
    (PhaseDone /\ SameSize) =>
        LET mask == DegreeMask(GetEll(GetLmax(Len(args.alm_cmb))), args.lmin, args.lmax)
        IN  /\ SameResult(ret, PhaseValue(args.alm_cmb, args.alm_ctx, mask))
            /\ \A s \in Scales :
                  /\ SameResult(ret, PhaseValue(Scaled(s, args.alm_cmb), args.alm_ctx, mask))
                  /\ SameResult(ret, PhaseValue(args.alm_cmb, Scaled(s, args.alm_ctx), mask))
\* a value strictly between -1 and 1 from unequal weights and unequal phases,
\* which the call with the two vectors exchanged does not return
C27_Witness ==
    /\ PhaseDone /\ ret.kind = "return" /\ ret.line = 59
    /\ ret.val.n # 0 /\ Abs(ret.val.n) < ret.val.d
    /\ \E i, j \in Selected : loc.weights[i] # loc.weights[j]
    /\ ~SameResult(ret, PhaseOf(args.alm_ctx, args.alm_cmb, args.lmin, args.lmax))

(***************************************************************************)
(* The four library functions together: one call of any of them.           *)
(***************************************************************************)
InitPure == InitDual \/ InitScale \/ InitMask
NextPure == NextDual \/ NextPhase \/ NextMask
SpecPure == InitPure /\ [][NextPure]_vars

\* C28: no step of woodbury_update_covariance, calculate_mean_shift,
\* calc_phase_alignment or build_mask changes an argument of the call, in a
\* call that returns as in a call that raises.
C28_ArgumentsUnchanged == [][args' = args]_vars
\* build_mask has run its in-place statement (line 46) on a field with a
\* pixel the hard mask rejects
C28_Witness ==
    /\ call = "build_mask" /\ pc = "done" /\ ret.line = 47
    /\ \E i \in 1..Len(args.map_in) : loc.mask_float[i] = 0 /\ args.map_in[i] # 0

(***************************************************************************)
(* pbc.utils.healpix.create_bins, statement by statement.  The binning     *)
(* library is outside the repository: from_nside_linear either accepts the *)
(* keywords and returns a binning, or raises TypeError (older versions),   *)
(* and from_edges receives the two edge arrays.                            *)
(***************************************************************************)
DefaultNlb == 50
\* an optional integer argument: None, or <<value>>
None == <<>>
\* np.arange(start, stop, step, dtype=int) for a positive step
Arange(start, stop, step) ==
    LET n == IF stop > start THEN (stop - start + step - 1) \div step ELSE 0
    IN  [i \in 1..n |-> start + (i - 1) * step]
\* mutant: the last bin is not cut at lmax
EllMax_unclipped(ell_min, nlb, lmax_val) ==
    [i \in 1..Len(ell_min) |-> ell_min[i] + nlb - 1]
\* "ell_max = np.minimum(ell_min + nlb - 1, lmax_val)"
EllMax(ell_min, nlb, lmax_val) ==
    [i \in 1..Len(ell_min) |->
        IF ell_min[i] + nlb - 1 <= lmax_val THEN ell_min[i] + nlb - 1 ELSE lmax_val]

\* lines 10-11
cb_check ==
    /\ call = "create_bins" /\ pc = "cb_check"
    /\ IF args.nlb <= 0
       THEN ret' = Raise(11, "ValueError") /\ pc' = "done"
       ELSE ret' = ret /\ pc' = "cb_kwargs"
    /\ UNCHANGED <<call, args, loc, env>>

\* lines 13-15
cb_kwargs ==
    /\ call = "create_bins" /\ pc = "cb_kwargs"
    /\ LET base == [nside |-> args.nside, nlb |-> args.nlb]
           with_lmin == IF args.lmin # None THEN Assign(base, "lmin", args.lmin[1]) ELSE base
           kwargs == IF args.lmax # None THEN Assign(with_lmin, "lmax", args.lmax[1])
                                           ELSE with_lmin
       IN  loc' = Assign(loc, "kwargs", kwargs)
    /\ pc' = "cb_try"
    /\ UNCHANGED <<call, args, ret, env>>

\* lines 17-19
cb_try ==
    /\ call = "create_bins" /\ pc = "cb_try"
    /\ IF env.from_nside_linear = "accepts"
       THEN /\ ret' = Return(18, [made_by |-> "from_nside_linear", kwargs |-> loc.kwargs])
            /\ pc' = "done"
       ELSE /\ ret' = ret
            /\ pc' = "cb_fallback"
    /\ UNCHANGED <<call, args, loc, env>>

\* lines 21-22
cb_fallback ==
    /\ call = "create_bins" /\ pc = "cb_fallback"
    /\ loc' = Assign(Assign(loc,
                 "lmin_val", IF args.lmin = None THEN 0 ELSE args.lmin[1]),
                 "lmax_val", IF args.lmax = None THEN 3 * args.nside - 1 ELSE args.lmax[1])
    /\ pc' = "cb_edges"
    /\ UNCHANGED <<call, args, ret, env>>

\* lines 24-25
cb_edges ==
    /\ call = "create_bins" /\ pc = "cb_edges"
    /\ LET ell_min == Arange(loc.lmin_val, loc.lmax_val + 1, args.nlb)
       IN  loc' = Assign(Assign(loc, "ell_min", ell_min),
                         "ell_max", EllMax(ell_min, args.nlb, loc.lmax_val))
    /\ pc' = "cb_from_edges"
    /\ UNCHANGED <<call, args, ret, env>>

\* line 26
cb_from_edges ==
    /\ call = "create_bins" /\ pc = "cb_from_edges"
    /\ ret' = Return(26, [made_by |-> "from_edges", ell_ini |-> loc.ell_min,
                          ell_end |-> loc.ell_max])
    /\ pc' = "done"
    /\ UNCHANGED <<call, args, loc, env>>

(***************************************************************************)
(* The binning: one call of create_bins on bounded inputs, with a library  *)
(* of either generation.                                                   *)
(***************************************************************************)
Nsides == {0, 1, 2, 4}
Nlbs == {-1, 0, 1, 2, 3, 5, DefaultNlb}
LminArgs == {None} \cup {<<l>> : l \in {-1, 0, 2, 5}}
LmaxArgs == {None} \cup {<<l>> : l \in {1, 4, 11}}

InitBins ==
    /\ call = "create_bins"
    /\ \E nside \in Nsides, nlb \in Nlbs, lmin \in LminArgs, lmax \in LmaxArgs :
          args = [nside |-> nside, nlb |-> nlb, lmin |-> lmin, lmax |-> lmax]
    /\ loc = NoLocals
    /\ pc = "cb_check"
    /\ ret = NoRet
    /\ \E lib \in {"accepts", "TypeError"} : env = [from_nside_linear |-> lib]

NextBins ==
    \/ cb_check
    \/ cb_kwargs
    \/ cb_try
    \/ cb_fallback
    \/ cb_edges
    \/ cb_from_edges

SpecBins == InitBins /\ [][NextBins]_vars

\* the range the fallback is asked to bin
BinLo == IF args.lmin = None THEN 0 ELSE args.lmin[1]
BinHi == IF args.lmax = None THEN 3 * args.nside - 1 ELSE args.lmax[1]
\* C29: create_bins raises ValueError for nlb <= 0 before it builds
\* anything; in the fallback the bins [ell_min[i], ell_max[i]] are
\* non-empty, of width at most nlb, each starting right after the previous
\* one ends, and together they are exactly the integers lmin..lmax (by
\* default 0..3*nside-1).
C29_FallbackBinsPartition ==
    /\ (call = "create_bins" /\ args.nlb <= 0) =>
          /\ loc = NoLocals
          /\ pc = "done" => ret = Raise(11, "ValueError")
    /\ (call = "create_bins" /\ Has("ell_max")) =>
          LET n == Len(loc.ell_min)
          IN  /\ Len(loc.ell_max) = n
              /\ \A i \in 1..n :
                    /\ loc.ell_min[i] <= loc.ell_max[i]
                    /\ loc.ell_max[i] - loc.ell_min[i] + 1 <= args.nlb
              /\ \A i \in 1..(n - 1) : loc.ell_min[i + 1] = loc.ell_max[i] + 1
              /\ UNION {loc.ell_min[i]..loc.ell_max[i] : i \in 1..n} = BinLo..BinHi
              /\ pc = "done" => /\ ret.kind = "return"
                                /\ ret.val.ell_ini = loc.ell_min
                                /\ ret.val.ell_end = loc.ell_max
\* three bins from a given lmin up to the default lmax, the last one cut short
C29_Witness ==
    /\ call = "create_bins" /\ pc = "done" /\ ret.kind = "return" /\ ret.line = 26
    /\ args.lmin # None /\ args.lmin[1] > 0 /\ args.lmax = None
    /\ Len(loc.ell_min) >= 3
    /\ loc.ell_max[Len(loc.ell_max)] - loc.ell_min[Len(loc.ell_min)] + 1 < args.nlb
====
